---- MODULE Spec2Model ----
(***************************************************************************)
(* TruthLens client: the browser key-value storage, the mock profile API   *)
(* (email-change challenge), the real API client (register / login / me /  *)
(* verify), the API selector and the mock article verification.            *)
(*                                                                         *)
(* Strings the code inspects character by character (codes, e-mail         *)
(* addresses) are sequences of one-character strings.                      *)
(***************************************************************************)
EXTENDS Integers, Sequences, FiniteSets, TLC

VARIABLES
    \* ---- localStorage ----
    token,          \* truthlens_token: a string, or NoItem
    user,           \* truthlens_user: a stored item (see Item...)
    profile,        \* truthlens_profile: a stored item
    verification,   \* truthlens_email_verification: a challenge, or NoChallenge
    \* ---- mock profile API (sendEmailVerification / verifyEmail) ----
    now,            \* Date.now(), in ms
    sent,           \* the latest response of sendEmailVerification, or NoResponse
    prev,           \* the completed call before the last one
    last,           \* the last completed call
    wrongRun,       \* wrong-code calls in a row since the send that made the challenge
    okCount,        \* successful verifications of the challenge of the latest send
    \* ---- real API client, API selector, login page, logout ----
    flow,           \* the API call in flight: its function, position, arguments
    lastReq,        \* the last HTTP exchange and what its handling left in storage
    apiRet,         \* the last return (or throw) of an API function
    pageRet,        \* the last completion of a login-page submit handler
    session,        \* whether a logout has happened since the last login
    \* ---- article verification of the API selector ----
    useMock,        \* the USE_MOCK flag of apiConfig
    vcall,          \* the verifyArticle call in flight
    vret,           \* how the last verifyArticle call ended
    vprev,          \* the ended call before that one, where a run keeps it
    \* ---- mock profile API: updateProfile ----
    ucall,          \* the updateProfile call in flight
    uret,           \* how the last updateProfile call ended
    \* ---- profile page ----
    pstate,         \* the React state of ProfilePage
    pjobs,          \* the handler invocations of ProfilePage that are awaiting
    plog,           \* what the profile page has asked of the profile API
    \* ---- checker page ----
    cstate,         \* the React state of CheckerPage
    cjobs,          \* the performCheck invocations that are awaiting
    clog,           \* what the checker page's last handler did
    \* ---- login page, router ----
    lstate,         \* the React state of LoginPage
    mounted,        \* the page component the router has mounted
    mlogin          \* the mockLogin call in flight or ended

storageVars == <<token, user, profile, verification>>
profileVars == <<now, sent, prev, last, wrongRun, okCount>>
authVars == <<flow, lastReq, apiRet, pageRet, session>>
verifyVars == <<useMock, vcall, vret, vprev>>
updateVars == <<ucall, uret>>
pageVars == <<pstate, pjobs, plog>>
checkerVars == <<cstate, cjobs, clog>>
shellVars == <<lstate, mounted, mlogin>>
uiVars == <<pageVars, checkerVars, shellVars>>
vars == <<storageVars, profileVars, authVars, verifyVars, updateVars, uiVars>>

-----------------------------------------------------------------------------
(* localStorage values *)

NoItem == "<no item>"
NoUser == [kind |-> "absent"]
NoProfile == [kind |-> "absent"]
NoChallenge == [present |-> FALSE]

\* JavaScript values that reach localStorage.setItem
JsUndefined == [type |-> "undefined"]
JsNull == [type |-> "null"]
JsString(s) == [type |-> "string", s |-> s]
JsObject(o) == [type |-> "object", o |-> o]
JsList(l) == [type |-> "list", l |-> l]
JsJson(o) == [type |-> "json", o |-> o]

\* obj.f
Prop(obj, f) == IF f \in DOMAIN obj THEN obj[f] ELSE JsUndefined

\* a value in a boolean position: if (v), !v, a || b
Truthy(v) ==
    CASE v.type = "undefined" -> FALSE
      [] v.type = "null" -> FALSE
      [] v.type = "string" -> v.s # ""
      [] OTHER -> TRUE

\* String(v), as setItem and new Error apply it
ToText(v) ==
    CASE v.type = "undefined" -> "undefined"
      [] v.type = "string" -> v.s
      [] OTHER -> "[object Object]"

\* JSON.stringify(v): undefined stays undefined
JSONstringify(v) ==
    IF v.type = "object" THEN JsJson(v.o) ELSE JsUndefined

\* the stored item after localStorage.setItem(key, v), for the JSON-valued keys
ItemOf(v) ==
    IF v.type = "json" THEN [kind |-> "json", o |-> v.o]
    ELSE [kind |-> "text", text |-> ToText(v)]

\* !!localStorage.getItem('truthlens_token')
HasToken(tok) == tok # NoItem /\ tok # ""

-----------------------------------------------------------------------------
(* Strings as character sequences *)

IsSpace(c) == c = " "

RECURSIVE TrimStart(_)
TrimStart(s) ==
    IF s # <<>> /\ IsSpace(Head(s)) THEN TrimStart(Tail(s)) ELSE s

RECURSIVE TrimEnd(_)
TrimEnd(s) ==
    IF s # <<>> /\ IsSpace(s[Len(s)]) THEN TrimEnd(SubSeq(s, 1, Len(s) - 1)) ELSE s

\* String.prototype.trim
Trim(s) == TrimEnd(TrimStart(s))

\* /^[^\s@]+@[^\s@]+\.[^\s@]+$/.test(email)
isValidEmail(email) ==
    /\ \A i \in 1..Len(email) : ~IsSpace(email[i])
    /\ Cardinality({i \in 1..Len(email) : email[i] = "@"}) = 1
    /\ \E a \in 2..Len(email) :
          /\ email[a] = "@"
          /\ \E d \in (a + 2)..(Len(email) - 1) : email[d] = "."

-----------------------------------------------------------------------------
(* Bounds and inputs of the mock profile API *)

ExpiryMs == 10 * 60 * 1000
MaxAttempts == 3
TickMs == ExpiryMs \div 2
MaxTicks == 3

\* Math.floor(100000 + Math.random() * 900000).toString(): the two extremes
GenCodes == { <<"1","0","0","0","0","0">>, <<"9","9","9","9","9","9">> }
\* what a caller may type: a generated code, bare or with blanks around it
CodeInputs == GenCodes \cup { <<" ">> \o <<"1","0","0","0","0","0">> \o <<" ">> }
\* Math.random().toString(36).substr(2, 9): two suffixes stand for all
RandSuffixes == {"k3x", "q7p"}
BogusId == [t |-> 0 - 1, r |-> "bogus"]
Emails == { <<"n","@","b",".","c">>, <<"a","@","b">> }

NoResponse == [verificationId |-> BogusId, devCode |-> <<>>]
NoCall ==
    [op |-> "none", id |-> BogusId, code |-> <<>>, outcome |-> "none",
     remaining |-> 0 - 1, late |-> FALSE, runBefore |-> 0 - 1,
     before |-> NoChallenge]
Brief(call) ==
    [op |-> call.op, id |-> call.id, code |-> call.code, outcome |-> call.outcome]

Challenge(id, code, email, t) ==
    [present |-> TRUE, verificationId |-> id, code |-> code, email |-> email,
     expiresAt |-> t + ExpiryMs, attempts |-> 0]

-----------------------------------------------------------------------------
(* Mock profile API: the e-mail change challenge *)

\* a sendEmailVerification that carries the attempts of a stored challenge over
sendEmailVerification_KeepAttempts(stored, newEmail, code, rand, t) ==
    IF ~isValidEmail(newEmail)
    THEN [outcome |-> "InvalidEmail", store |-> stored,
          verificationId |-> BogusId, devCode |-> <<>>]
    ELSE LET id == [t |-> t, r |-> rand]
         IN  [outcome |-> "Success",
              store |-> [Challenge(id, code, newEmail, t) EXCEPT
                            !.attempts = IF stored.present THEN stored.attempts
                                         ELSE 0],
              verificationId |-> id, devCode |-> code]

\* sendEmailVerification(newEmail), with the code and the id suffix it draws and
\* the time after its delay; `store` is truthlens_email_verification afterwards
sendEmailVerification(stored, newEmail, code, rand, t) ==
    IF ~isValidEmail(newEmail)
    THEN [outcome |-> "InvalidEmail", store |-> stored,
          verificationId |-> BogusId, devCode |-> <<>>]
    ELSE LET id == [t |-> t, r |-> rand]
         IN  [outcome |-> "Success", store |-> Challenge(id, code, newEmail, t),
              verificationId |-> id, devCode |-> code]

\* verifyEmail, were the third wrong code to delete the challenge at once
verifyEmail_DeleteOnThirdWrong(stored, verificationId, code, t) ==
    IF ~stored.present
    THEN [outcome |-> "SessionNotFound", remaining |-> 0 - 1, email |-> <<>>,
          store |-> stored]
    ELSE IF t > stored.expiresAt
    THEN [outcome |-> "Expired", remaining |-> 0 - 1, email |-> <<>>,
          store |-> NoChallenge]
    ELSE IF stored.verificationId # verificationId
    THEN [outcome |-> "InvalidSession", remaining |-> 0 - 1, email |-> <<>>,
          store |-> stored]
    ELSE IF stored.code # Trim(code)
    THEN [outcome |-> "InvalidCode",
          remaining |-> MaxAttempts - (stored.attempts + 1), email |-> <<>>,
          store |-> IF stored.attempts + 1 >= MaxAttempts THEN NoChallenge
                    ELSE [stored EXCEPT !.attempts = stored.attempts + 1]]
    ELSE [outcome |-> "Success", remaining |-> 0 - 1, email |-> stored.email,
          store |-> NoChallenge]

\* verifyEmail, were a successful verification to leave the challenge stored
verifyEmail_KeepOnSuccess(stored, verificationId, code, t) ==
    IF ~stored.present
    THEN [outcome |-> "SessionNotFound", remaining |-> 0 - 1, email |-> <<>>,
          store |-> stored]
    ELSE IF t > stored.expiresAt
    THEN [outcome |-> "Expired", remaining |-> 0 - 1, email |-> <<>>,
          store |-> NoChallenge]
    ELSE IF stored.attempts >= MaxAttempts
    THEN [outcome |-> "TooManyAttempts", remaining |-> 0 - 1, email |-> <<>>,
          store |-> NoChallenge]
    ELSE IF stored.verificationId # verificationId
    THEN [outcome |-> "InvalidSession", remaining |-> 0 - 1, email |-> <<>>,
          store |-> stored]
    ELSE IF stored.code # Trim(code)
    THEN [outcome |-> "InvalidCode",
          remaining |-> MaxAttempts - (stored.attempts + 1), email |-> <<>>,
          store |-> [stored EXCEPT !.attempts = stored.attempts + 1]]
    ELSE [outcome |-> "Success", remaining |-> 0 - 1, email |-> stored.email,
          store |-> stored]

\* verifyEmail, were it to look at the attempts before the expiry
verifyEmail_AttemptsFirst(stored, verificationId, code, t) ==
    IF ~stored.present
    THEN [outcome |-> "SessionNotFound", remaining |-> 0 - 1, email |-> <<>>,
          store |-> stored]
    ELSE IF stored.attempts >= MaxAttempts
    THEN [outcome |-> "TooManyAttempts", remaining |-> 0 - 1, email |-> <<>>,
          store |-> NoChallenge]
    ELSE IF t > stored.expiresAt
    THEN [outcome |-> "Expired", remaining |-> 0 - 1, email |-> <<>>,
          store |-> NoChallenge]
    ELSE IF stored.verificationId # verificationId
    THEN [outcome |-> "InvalidSession", remaining |-> 0 - 1, email |-> <<>>,
          store |-> stored]
    ELSE IF stored.code # Trim(code)
    THEN [outcome |-> "InvalidCode",
          remaining |-> MaxAttempts - (stored.attempts + 1), email |-> <<>>,
          store |-> [stored EXCEPT !.attempts = stored.attempts + 1]]
    ELSE [outcome |-> "Success", remaining |-> 0 - 1, email |-> stored.email,
          store |-> NoChallenge]

\* verifyEmail, were a foreign challenge id to count as a failed attempt
verifyEmail_CountIdMismatch(stored, verificationId, code, t) ==
    IF ~stored.present
    THEN [outcome |-> "SessionNotFound", remaining |-> 0 - 1, email |-> <<>>,
          store |-> stored]
    ELSE IF t > stored.expiresAt
    THEN [outcome |-> "Expired", remaining |-> 0 - 1, email |-> <<>>,
          store |-> NoChallenge]
    ELSE IF stored.attempts >= MaxAttempts
    THEN [outcome |-> "TooManyAttempts", remaining |-> 0 - 1, email |-> <<>>,
          store |-> NoChallenge]
    ELSE IF stored.verificationId # verificationId
    THEN [outcome |-> "InvalidSession", remaining |-> 0 - 1, email |-> <<>>,
          store |-> [stored EXCEPT !.attempts = stored.attempts + 1]]
    ELSE IF stored.code # Trim(code)
    THEN [outcome |-> "InvalidCode",
          remaining |-> MaxAttempts - (stored.attempts + 1), email |-> <<>>,
          store |-> [stored EXCEPT !.attempts = stored.attempts + 1]]
    ELSE [outcome |-> "Success", remaining |-> 0 - 1, email |-> stored.email,
          store |-> NoChallenge]

\* verifyEmail(verificationId, code) evaluated at time t, after its delay
verifyEmail(stored, verificationId, code, t) ==
    IF ~stored.present
    THEN [outcome |-> "SessionNotFound", remaining |-> 0 - 1, email |-> <<>>,
          store |-> stored]
    ELSE IF t > stored.expiresAt
    THEN [outcome |-> "Expired", remaining |-> 0 - 1, email |-> <<>>,
          store |-> NoChallenge]
    ELSE IF stored.attempts >= MaxAttempts
    THEN [outcome |-> "TooManyAttempts", remaining |-> 0 - 1, email |-> <<>>,
          store |-> NoChallenge]
    ELSE IF stored.verificationId # verificationId
    THEN [outcome |-> "InvalidSession", remaining |-> 0 - 1, email |-> <<>>,
          store |-> stored]
    ELSE IF stored.code # Trim(code)
    THEN [outcome |-> "InvalidCode",
          remaining |-> MaxAttempts - (stored.attempts + 1), email |-> <<>>,
          store |-> [stored EXCEPT !.attempts = stored.attempts + 1]]
    ELSE [outcome |-> "Success", remaining |-> 0 - 1, email |-> stored.email,
          store |-> NoChallenge]

\* the ids a caller can hold: the one of the latest response, or another one
IdInputs == {sent.verificationId, BogusId}

\* the latest challenge was created more than ExpiryMs ago
Late == sent # NoResponse /\ now > sent.verificationId.t + ExpiryMs

SendEmailVerification(newEmail, code, rand) ==
    /\ LET r == sendEmailVerification(verification, newEmail, code, rand, now)
       IN  /\ verification' = r.store
           /\ prev' = Brief(last)
           /\ last' = [op |-> "sendEmailVerification", id |-> r.verificationId,
                       code |-> r.devCode, outcome |-> r.outcome,
                       remaining |-> 0 - 1, late |-> FALSE,
                       runBefore |-> wrongRun, before |-> verification]
           /\ IF r.outcome = "Success"
              THEN /\ sent' = [verificationId |-> r.verificationId,
                               devCode |-> r.devCode]
                   /\ wrongRun' = 0
                   /\ okCount' = 0
              ELSE UNCHANGED <<sent, wrongRun, okCount>>
    /\ UNCHANGED <<token, user, profile, now, authVars, verifyVars, updateVars, uiVars>>

VerifyEmail(verificationId, code) ==
    /\ LET r == verifyEmail(verification, verificationId, code, now)
           wrong == /\ sent # NoResponse
                    /\ wrongRun >= 0
                    /\ verificationId = sent.verificationId
                    /\ Trim(code) # sent.devCode
       IN  /\ verification' = r.store
           /\ prev' = Brief(last)
           /\ last' = [op |-> "verifyEmail", id |-> verificationId, code |-> code,
                       outcome |-> r.outcome, remaining |-> r.remaining,
                       late |-> Late, runBefore |-> wrongRun,
                       before |-> verification]
           /\ wrongRun' = IF wrong
                          THEN IF wrongRun < MaxAttempts + 1 THEN wrongRun + 1
                               ELSE wrongRun
                          ELSE 0 - 1
           /\ okCount' = IF r.outcome = "Success" /\ okCount < 2
                         THEN okCount + 1 ELSE okCount
    /\ UNCHANGED <<token, user, profile, now, sent, authVars, verifyVars, updateVars, uiVars>>

\* time passes between calls
Tick ==
    /\ now < MaxTicks * TickMs
    /\ now' = now + TickMs
    /\ UNCHANGED <<storageVars, sent, prev, last, wrongRun, okCount, authVars, verifyVars, updateVars, uiVars>>

-----------------------------------------------------------------------------
(* The backend, as the client sees it *)

Accounts == { [username |-> "demo", email |-> "demo@truthlens.com"],
              [username |-> "admin", email |-> "admin@truthlens.com"] }
NoAccount == [username |-> "", email |-> ""]
AccessTokens == {"tokA", "tokB"}
Providers == {"google", "facebook"}

NoData == [nodata |-> JsUndefined]
\* { access_token, token_type }
TokenBody(t) == [access_token |-> JsString(t), token_type |-> JsString("bearer")]
EmptyBody == [message |-> JsString("ok")]
\* the user object { username, email } of an account
UserObject(acct) ==
    [username |-> JsString(acct.username), email |-> JsString(acct.email)]
ResultBody == [verdict |-> JsString("Uncertain")]

\* error bodies: { detail: "..." }, { detail: [{ msg }] }, { message }, not JSON
DetailBody == [detail |-> JsString("Incorrect username or password")]
ListBody == [detail |-> JsList(<<[msg |-> JsString("field required")]>>)]
MessageBody == [message |-> JsString("Service unavailable")]
Unparseable == [unparseable |-> JsUndefined]
ErrBodies == {DetailBody, ListBody, MessageBody, Unparseable}
ErrStatuses == {401, 422, 500}

StatusText(status) ==
    CASE status = 401 -> "Unauthorized"
      [] status = 422 -> "Unprocessable Entity"
      [] status = 500 -> "Internal Server Error"
      [] OTHER -> ""

\* `HTTP ${response.status}: ${response.statusText}`
HttpError(status) ==
    CASE status = 401 -> "HTTP 401: Unauthorized"
      [] status = 422 -> "HTTP 422: Unprocessable Entity"
      [] status = 500 -> "HTTP 500: Internal Server Error"
      [] OTHER -> "HTTP"

\* what the backend may answer; status 0 stands for fetch() itself rejecting
NetworkError == [status |-> 0, body |-> Unparseable]
Responses(okBodies) ==
    {[status |-> 200, body |-> b] : b \in okBodies}
      \cup {[status |-> st, body |-> b] : st \in ErrStatuses, b \in ErrBodies}
      \cup {NetworkError}

SessionExpired == "Session expired. Please login again."
NotAuthenticated == "Not authenticated. Please login first."

-----------------------------------------------------------------------------
(* Real API client *)

\* handleResponse(response), with the token and user it finds in storage
handleResponse(resp, tok, usr) ==
    LET error == IF resp.body = Unparseable
                 THEN [detail |-> JsString(IF StatusText(resp.status) # ""
                                           THEN StatusText(resp.status)
                                           ELSE "Request failed")]
                 ELSE resp.body
        detail == Prop(error, "detail")
        first == IF detail.type = "list" /\ Len(detail.l) > 0
                 THEN Prop(detail.l[1], "msg") ELSE JsUndefined
    IN  IF resp.status \notin 200..299
        THEN IF resp.status = 401
             THEN [threw |-> TRUE, error |-> SessionExpired, data |-> NoData,
                   token |-> NoItem, user |-> NoUser]
             ELSE IF resp.status = 422
             THEN [threw |-> TRUE,
                   error |-> IF Truthy(first) THEN ToText(first)
                             ELSE "Invalid request data",
                   data |-> NoData, token |-> tok, user |-> usr]
             ELSE [threw |-> TRUE,
                   error |-> IF Truthy(detail) THEN ToText(detail)
                             ELSE IF Truthy(Prop(error, "message"))
                             THEN ToText(Prop(error, "message"))
                             ELSE "Request failed",
                   data |-> NoData, token |-> tok, user |-> usr]
        ELSE [threw |-> FALSE, error |-> "", data |-> resp.body,
              token |-> tok, user |-> usr]

\* await fetch(...) followed by handleResponse: fetch may reject
Fetched(resp, tok, usr) ==
    IF resp.status = 0
    THEN [threw |-> TRUE, error |-> "Failed to fetch", data |-> NoData,
          token |-> tok, user |-> usr]
    ELSE handleResponse(resp, tok, usr)

\* realAPI.verifyArticle of the API selector, from its response on
realVerifyArticle(resp, tok, usr) ==
    LET errorData == IF resp.body = Unparseable THEN NoData ELSE resp.body
    IN  IF resp.status = 0
        THEN [threw |-> TRUE, error |-> "Failed to fetch", data |-> NoData,
              token |-> tok, user |-> usr]
        ELSE IF resp.status \notin 200..299
        THEN [threw |-> TRUE,
              error |-> IF Truthy(Prop(errorData, "message"))
                        THEN ToText(Prop(errorData, "message"))
                        ELSE HttpError(resp.status),
              data |-> NoData, token |-> tok, user |-> usr]
        ELSE [threw |-> FALSE, error |-> "", data |-> resp.body,
              token |-> tok, user |-> usr]

\* a logout that forgets truthlens_token
logout_KeepToken(tok, usr, prof) ==
    [token |-> tok, user |-> NoUser, profile |-> NoProfile]

\* logout(): the three removeItem calls
logout(tok, usr, prof) ==
    [token |-> NoItem, user |-> NoUser, profile |-> NoProfile]

\* isAuthenticated()
isAuthenticated(tok) == HasToken(tok)

\* a getCurrentUser that requests /users/me without looking for a token
getCurrentUserGuard_NoCheck(tok) == ""

\* getCurrentUser() up to its fetch: the error it throws at once, or "" when it
\* goes on to request /users/me
getCurrentUserGuard(tok) == IF ~HasToken(tok) THEN NotAuthenticated ELSE ""

-----------------------------------------------------------------------------
(* API calls in flight, the login page's submit handlers, logout *)

NoFlow ==
    [op |-> "none", pc |-> "idle", via |-> "api", account |-> NoAccount,
     data |-> NoData, disturbed |-> FALSE]
NoReq ==
    [endpoint |-> "none", status |-> 0, threw |-> FALSE, error |-> "",
     token |-> NoItem, user |-> NoUser]
NoRet ==
    [op |-> "none", threw |-> FALSE, error |-> "", data |-> NoData,
     token |-> NoItem, user |-> NoUser, disturbed |-> FALSE,
     account |-> NoAccount, meFailed |-> FALSE, meStatus |-> 0]
NoPage ==
    [handler |-> "none", outcome |-> "none", error |-> "", to |-> "",
     token |-> NoItem, user |-> NoUser, data |-> NoData,
     account |-> NoAccount, disturbed |-> FALSE]

Req(endpoint, resp, h) ==
    [endpoint |-> endpoint, status |-> resp.status, threw |-> h.threw,
     error |-> h.error, token |-> h.token, user |-> h.user]

\* what an API function hands back: h is the handled response, tok and usr the
\* storage it leaves
Ret(h, tok, usr, meFailed, meStatus) ==
    [op |-> flow.op, threw |-> h.threw, error |-> h.error, data |-> h.data,
     token |-> tok, user |-> usr, disturbed |-> flow.disturbed,
     account |-> flow.account, meFailed |-> meFailed, meStatus |-> meStatus]

Handler(op) ==
    CASE op = "login" -> "handleLoginSubmit"
      [] op = "register" -> "handleSignupSubmit"
      [] OTHER -> "handleSocialLogin"

Fallback(op) ==
    CASE op = "login" -> "Login failed. Please try again."
      [] op = "register" -> "Signup failed. Please try again."
      [] OTHER -> "login failed. Please try again."

\* the rest of handleLoginSubmit / handleSignupSubmit / handleSocialLogin once the
\* awaited call has returned or thrown
submitDone(ret) ==
    IF ret.threw
    THEN [handler |-> Handler(ret.op), outcome |-> "error",
          error |-> IF ret.error # "" THEN ret.error ELSE Fallback(ret.op),
          to |-> "", token |-> ret.token, user |-> ret.user,
          data |-> ret.data, account |-> ret.account,
          disturbed |-> ret.disturbed]
    ELSE [handler |-> Handler(ret.op), outcome |-> "navigated", error |-> "",
          to |-> "/",
          token |-> ToText(Prop(ret.data, "token")),
          user |-> ItemOf(JSONstringify(Prop(ret.data, "user"))),
          data |-> ret.data, account |-> ret.account,
          disturbed |-> ret.disturbed]

\* an API function returns or throws; a page handler awaiting it runs on
Finish(ret, req, tokenStored) ==
    /\ lastReq' = req
    /\ apiRet' = ret
    /\ IF flow.via = "page"
       THEN LET pg == submitDone(ret)
            IN  /\ pageRet' = pg
                /\ token' = pg.token
                /\ user' = pg.user
                /\ lstate' = [isLoading |-> FALSE, error |-> pg.error]
       ELSE /\ pageRet' = pageRet
            /\ token' = ret.token
            /\ user' = ret.user
            /\ lstate' = lstate
    /\ session' = IF tokenStored \/ (flow.via = "page" /\ ~ret.threw)
                  THEN [session EXCEPT !.loggedOut = FALSE] ELSE session
    /\ flow' = NoFlow
    /\ UNCHANGED <<profile, verification, profileVars, verifyVars, updateVars,
                   pageVars, checkerVars, mounted, mlogin>>

\* setIsLoading(true); setError('') of the three submit handlers
submitStart(st) == [st EXCEPT !.isLoading = TRUE, !.error = ""]

Start(op, pc, via, acct) ==
    /\ flow.op = "none"
    /\ flow' = [op |-> op, pc |-> pc, via |-> via, account |-> acct,
                data |-> NoData, disturbed |-> FALSE]
    /\ lastReq' = NoReq
    /\ apiRet' = NoRet
    /\ pageRet' = NoPage
    /\ lstate' = IF via = "page" THEN submitStart(lstate) ELSE lstate
    /\ UNCHANGED <<storageVars, profileVars, verifyVars, updateVars, session,
                   pageVars, checkerVars, mounted, mlogin>>

\* register({ email, username, password }), called directly or by the signup form
StartRegister(acct, via) == Start("register", "fetch", via, acct)

RespondRegister(resp) ==
    /\ flow.op = "register" /\ flow.pc = "fetch"
    /\ LET h == Fetched(resp, token, user)
           stored == ~h.threw /\ Truthy(Prop(h.data, "access_token"))
           tok == IF stored THEN ToText(Prop(h.data, "access_token")) ELSE h.token
           usr == IF stored
                  THEN ItemOf(JSONstringify(JsObject(UserObject(flow.account))))
                  ELSE h.user
       IN  Finish(Ret(h, tok, usr, FALSE, 0),
                  Req("/users/register", resp, h), stored)

\* login({ username, password }), called directly or by the login form
StartLogin(acct, via) == Start("login", "fetch", via, acct)

RespondLogin(resp) ==
    /\ flow.op = "login" /\ flow.pc = "fetch"
    /\ LET h == Fetched(resp, token, user)
           stored == ~h.threw /\ Truthy(Prop(h.data, "access_token"))
           tok == IF stored THEN ToText(Prop(h.data, "access_token")) ELSE h.token
       IN  IF stored /\ getCurrentUserGuard(tok) = ""
           THEN \* token stored, getCurrentUser() has sent its request
                /\ token' = tok
                /\ user' = h.user
                /\ flow' = [flow EXCEPT !.pc = "fetchMe", !.data = h.data]
                /\ lastReq' = Req("/users/login", resp, h)
                /\ session' = [session EXCEPT !.loggedOut = FALSE]
                /\ UNCHANGED <<profile, verification, profileVars, verifyVars, updateVars, apiRet, pageRet, uiVars>>
           ELSE Finish(Ret(h, tok, h.user, stored, 0),
                       Req("/users/login", resp, h), stored)

\* getCurrentUser(), called directly
StartGetCurrentUser(acct) ==
    IF getCurrentUserGuard(token) # ""
    THEN /\ flow.op = "none"
         /\ apiRet' = [NoRet EXCEPT !.op = "getCurrentUser", !.threw = TRUE,
                                    !.error = getCurrentUserGuard(token),
                                    !.token = token, !.user = user]
         /\ lastReq' = NoReq
         /\ pageRet' = NoPage
         /\ UNCHANGED <<storageVars, profileVars, verifyVars, updateVars, flow, session, uiVars>>
    ELSE Start("getCurrentUser", "fetchMe", "api", acct)

\* the answer to GET /users/me, for getCurrentUser() alone or inside login()
RespondMe(resp) ==
    /\ flow.pc = "fetchMe"
    /\ LET h == Fetched(resp, token, user)
           usr == IF h.threw THEN h.user
                  ELSE ItemOf(JSONstringify(JsObject(h.data)))
           req == Req("/users/me", resp, h)
       IN  IF flow.op = "login"
           THEN \* login() catches the failure and returns the login response
                Finish([Ret(h, h.token, usr, h.threw, resp.status)
                          EXCEPT !.threw = FALSE, !.error = "",
                                 !.data = flow.data],
                       req, FALSE)
           ELSE Finish(Ret(h, h.token, usr, h.threw, resp.status), req, FALSE)

\* verifyArticle({ text }) of the API client: POST /api/verify
StartVerifyArticle == Start("verifyArticle", "fetch", "api", NoAccount)

RespondVerifyArticle(resp) ==
    /\ flow.op = "verifyArticle" /\ flow.pc = "fetch"
    /\ LET h == Fetched(resp, token, user)
       IN  Finish(Ret(h, h.token, h.user, FALSE, 0),
                  Req("/api/verify", resp, h), FALSE)

\* realAPI.verifyArticle(token, text) of the API selector: POST /api/verify_article
StartRealVerifyArticle == Start("realAPI.verifyArticle", "fetch", "api", NoAccount)

RespondRealVerifyArticle(resp) ==
    /\ flow.op = "realAPI.verifyArticle" /\ flow.pc = "fetch"
    /\ LET h == realVerifyArticle(resp, token, user)
       IN  Finish(Ret(h, h.token, h.user, FALSE, 0),
                  Req("/api/verify_article", resp, h), FALSE)

\* mockSocialLogin(provider): { status, message, token, user } after its delay
mockSocialLogin(provider) ==
    LET mockUser == IF provider = "facebook"
                    THEN [username |-> "fbuser", email |-> "user@facebook.com"]
                    ELSE [username |-> "googleuser", email |-> "user@gmail.com"]
    IN  [threw |-> FALSE, error |-> "",
         data |-> [token |-> JsString("jwt." \o mockUser.username),
                   user |-> JsObject(UserObject(mockUser))]]

StartSocialLogin(provider) ==
    Start("mockSocialLogin", provider, "page", NoAccount)

CompleteSocialLogin ==
    /\ flow.op = "mockSocialLogin"
    /\ LET m == mockSocialLogin(flow.pc)
           h == [threw |-> m.threw, error |-> m.error, data |-> m.data,
                 token |-> token, user |-> user]
       IN  Finish(Ret(h, token, user, FALSE, 0), NoReq, FALSE)

\* logout() of the API client
Logout ==
    /\ LET after == logout(token, user, profile)
       IN  /\ token' = after.token
           /\ user' = after.user
           /\ profile' = after.profile
           /\ session' = [loggedOut |-> TRUE,
                          cleared |-> /\ after.token = NoItem
                                      /\ after.user = NoUser
                                      /\ after.profile = NoProfile,
                          hadToken |-> HasToken(token)]
    /\ flow' = IF flow.op # "none" THEN [flow EXCEPT !.disturbed = TRUE] ELSE flow
    /\ UNCHANGED <<verification, profileVars, verifyVars, updateVars, lastReq, apiRet, pageRet, uiVars>>

\* handleLogout of the profile page: the same removals once the user confirms
handleLogout(confirmed, tok, usr, prof) ==
    IF confirmed
    THEN [token |-> NoItem, user |-> NoUser, profile |-> NoProfile]
    ELSE [token |-> tok, user |-> usr, profile |-> prof]

HandleLogout(confirmed) ==
    /\ LET after == handleLogout(confirmed, token, user, profile)
       IN  /\ token' = after.token
           /\ user' = after.user
           /\ profile' = after.profile
           /\ session' = IF confirmed
                         THEN [loggedOut |-> TRUE,
                               cleared |-> /\ after.token = NoItem
                                           /\ after.user = NoUser
                                           /\ after.profile = NoProfile,
                               hadToken |-> HasToken(token)]
                         ELSE session
    /\ flow' = IF confirmed /\ flow.op # "none"
               THEN [flow EXCEPT !.disturbed = TRUE] ELSE flow
    /\ UNCHANGED <<verification, profileVars, verifyVars, updateVars, lastReq, apiRet, pageRet, uiVars>>

-----------------------------------------------------------------------------
(* Article verification: the API selector and its mock *)

\* An article text is kept as the words of interest it contains, its length in
\* characters and whether it is whitespace only.
Words ==
    {"who", "cdc", "research", "study", "university", "professor",
     "fake", "hoax", "conspiracy", "unverified", "rumor", "WHO", "Hoax"}
MaxWords == 3
MaxTextSize == 200000
ShortTextLimit == 200
LongTextBonus == 500
ServerErrorPct == 8
Lengths == {0, 1, 3, ShortTextLimit - 1, ShortTextLimit, LongTextBonus,
            LongTextBonus + 1, MaxTextSize, MaxTextSize + 1}

WordLen(w) ==
    CASE w \in {"who", "cdc", "WHO"} -> 3
      [] w \in {"fake", "hoax", "Hoax"} -> 4
      [] w \in {"study", "rumor"} -> 5
      [] w = "research" -> 8
      [] w = "professor" -> 9
      [] OTHER -> 10

RECURSIVE MinLen(_)
\* the characters the words take, with one separator between two words
MinLen(ws) ==
    IF ws = {} THEN 0
    ELSE LET w == CHOOSE x \in ws : TRUE
         IN  WordLen(w) + (IF ws = {w} THEN 0 ELSE 1 + MinLen(ws \ {w}))

Texts ==
    {t \in [words : {ws \in SUBSET Words : Cardinality(ws) <= MaxWords},
            len : Lengths, blank : BOOLEAN] :
        /\ t.len >= MinLen(t.words)
        /\ t.blank => (t.words = {} /\ t.len > 0)}
EmptyText == [words |-> {}, len |-> 0, blank |-> FALSE]

\* the token argument: null, '' or a JWT
VerifyTokens == {JsNull, JsString(""), JsString("tokA")}

\* a lowering that leaves every letter as it is
toLowerCase_Identity(w) == w

\* String.prototype.toLowerCase, word by word
toLowerCase(w) ==
    CASE w = "WHO" -> "who"
      [] w = "Hoax" -> "hoax"
      [] OTHER -> w
lowerText(text) == [text EXCEPT !.words = {toLowerCase(w) : w \in text.words}]

\* text.includes(k): case-sensitive
includes(text, k) == k \in text.words

\* text.trim()
trim(text) == IF text.blank THEN EmptyText ELSE text

Min(a, b) == IF a < b THEN a ELSE b
Max(a, b) == IF a > b THEN a ELSE b
\* s.slice(0, n)
slice(s, n) == SubSeq(s, 1, Min(n, Len(s)))

WHOSource == [publisher |-> "WHO", stance |-> "supports"]
CDCSource == [publisher |-> "CDC", stance |-> "supports"]
FactCheckSource == [publisher |-> "FactCheck.org", stance |-> "contradicts"]
ReutersSource == [publisher |-> "Reuters", stance |-> "neutral"]
PubMedSource == [publisher |-> "PubMed", stance |-> "supports"]

\* the sources generateMockSources has pushed when it comes to its return
pushedSources(text, isGuest) ==
    LET lt == lowerText(text)
        hasCredibleKeywords ==
            \/ includes(lt, "who") \/ includes(lt, "cdc")
            \/ includes(lt, "research") \/ includes(lt, "study")
            \/ includes(lt, "university")
        hasSkepticalKeywords ==
            \/ includes(lt, "fake") \/ includes(lt, "hoax")
            \/ includes(lt, "conspiracy") \/ includes(lt, "unverified")
        s1 == IF hasCredibleKeywords THEN <<WHOSource, CDCSource>> ELSE <<>>
        s2 == s1 \o (IF hasSkepticalKeywords THEN <<FactCheckSource>>
                                             ELSE <<ReutersSource>>)
    IN  IF ~isGuest /\ Len(s2) < 3 THEN Append(s2, PubMedSource) ELSE s2

generateMockSources(text, isGuest) ==
    IF isGuest THEN slice(pushedSources(text, isGuest), 2)
    ELSE slice(pushedSources(text, isGuest), 3)

\* the score before it is brought into range
rawScore(text) ==
    LET lt == lowerText(text)
    IN  50
        + (IF includes(lt, "who") THEN 15 ELSE 0)
        + (IF includes(lt, "cdc") THEN 15 ELSE 0)
        + (IF includes(lt, "research") \/ includes(lt, "study") THEN 10 ELSE 0)
        + (IF includes(lt, "university") \/ includes(lt, "professor")
           THEN 10 ELSE 0)
        + (IF text.len > LongTextBonus THEN 5 ELSE 0)
        - (IF includes(lt, "fake") THEN 20 ELSE 0)
        - (IF includes(lt, "hoax") THEN 25 ELSE 0)
        - (IF includes(lt, "conspiracy") THEN 15 ELSE 0)
        - (IF includes(lt, "unverified") \/ includes(lt, "rumor")
           THEN 10 ELSE 0)

\* a score that is capped at 100 but has no floor
calculateMockScore_NoFloor(text) == Min(100, rawScore(text))

calculateMockScore(text) == Max(0, Min(100, rawScore(text)))

\* a getVerdict whose upper threshold is exclusive
getVerdict_StrictTrue(score) ==
    IF score > 70 THEN "Likely True"
    ELSE IF score >= 40 THEN "Uncertain"
    ELSE "Likely False"

getVerdict(score) ==
    IF score >= 70 THEN "Likely True"
    ELSE IF score >= 40 THEN "Uncertain"
    ELSE "Likely False"

getConfidence(score, text) ==
    IF text.len < ShortTextLimit THEN "low"
    ELSE IF score >= 75 \/ score <= 25 THEN "high"
    ELSE IF score >= 60 \/ score <= 40 THEN "medium"
    ELSE "low"

\* the sources whose stance is st
RECURSIVE StanceCount(_, _)
StanceCount(sources, st) ==
    IF sources = <<>> THEN 0
    ELSE (IF Head(sources).stance = st THEN 1 ELSE 0)
           + StanceCount(Tail(sources), st)

\* the rationale sentence, kept as its template and the values filled in
generateRationale(score, sources, confidence) ==
    LET supportCount == StanceCount(sources, "supports")
        contradictCount == StanceCount(sources, "contradicts")
    IN  IF score >= 70
        THEN [template |-> "supported by", supports |-> supportCount,
              contradicts |-> 0, confidence |-> confidence]
        ELSE IF score >= 40
        THEN [template |-> "mixed evidence", supports |-> supportCount,
              contradicts |-> contradictCount, confidence |-> confidence]
        ELSE [template |-> "contradicted by", supports |-> 0,
              contradicts |-> contradictCount, confidence |-> confidence]

ShortRationale ==
    [template |-> "Text too short for confident judgement.", supports |-> 0,
     contradicts |-> 0, confidence |-> ""]
GuestRationale ==
    [template |-> "Limited verification available for guest users.",
     supports |-> 0, contradicts |-> 0, confidence |-> ""]

EmptyTextError == "Article text cannot be empty"
TooLongError == "Article text exceeds maximum size of 200KB"
ServerError == "Server error: Unable to process request. Please try again."

\* the mock verifyArticle up to its delay: the validation error, or ""
validate(text) ==
    IF text.len = 0 \/ trim(text).len = 0 THEN EmptyTextError
    ELSE IF text.len > MaxTextSize THEN TooLongError
    ELSE ""

\* a mock whose short-text branch returns all the sources it generated
mockResult_ShortAllSources(tok, text) ==
    LET isGuest == ~Truthy(tok)
        score == calculateMockScore(text)
        sources == generateMockSources(text, isGuest)
    IN  IF text.len < ShortTextLimit
        THEN [score |-> 50, verdict |-> "Uncertain", confidence |-> "low",
              rationale |-> ShortRationale, sources |-> sources]
        ELSE IF isGuest
        THEN [score |-> score, verdict |-> "Uncertain", confidence |-> "low",
              rationale |-> GuestRationale, sources |-> slice(sources, 2)]
        ELSE [score |-> score, verdict |-> getVerdict(score),
              confidence |-> getConfidence(score, text),
              rationale |-> generateRationale(score, sources,
                                              getConfidence(score, text)),
              sources |-> sources]

\* a mock that hands guests the computed verdict
mockResult_GuestVerdictShown(tok, text) ==
    LET isGuest == ~Truthy(tok)
        score == calculateMockScore(text)
        sources == generateMockSources(text, isGuest)
    IN  IF text.len < ShortTextLimit
        THEN [score |-> 50, verdict |-> "Uncertain", confidence |-> "low",
              rationale |-> ShortRationale, sources |-> slice(sources, 1)]
        ELSE IF isGuest
        THEN [score |-> score, verdict |-> getVerdict(score),
              confidence |-> "low", rationale |-> GuestRationale,
              sources |-> slice(sources, 2)]
        ELSE [score |-> score, verdict |-> getVerdict(score),
              confidence |-> getConfidence(score, text),
              rationale |-> generateRationale(score, sources,
                                              getConfidence(score, text)),
              sources |-> sources]

\* a mock that hides the computed score from guests
mockResult_GuestScoreMasked(tok, text) ==
    LET isGuest == ~Truthy(tok)
        score == calculateMockScore(text)
        sources == generateMockSources(text, isGuest)
    IN  IF text.len < ShortTextLimit
        THEN [score |-> 50, verdict |-> "Uncertain", confidence |-> "low",
              rationale |-> ShortRationale, sources |-> slice(sources, 1)]
        ELSE IF isGuest
        THEN [score |-> 50, verdict |-> "Uncertain", confidence |-> "low",
              rationale |-> GuestRationale, sources |-> slice(sources, 2)]
        ELSE [score |-> score, verdict |-> getVerdict(score),
              confidence |-> getConfidence(score, text),
              rationale |-> generateRationale(score, sources,
                                              getConfidence(score, text)),
              sources |-> sources]

\* the mock verifyArticle from the short-text branch on
mockResult(tok, text) ==
    LET isGuest == ~Truthy(tok)
        score == calculateMockScore(text)
        verdict == getVerdict(score)
        confidence == getConfidence(score, text)
        sources == generateMockSources(text, isGuest)
        rationale == generateRationale(score, sources, confidence)
    IN  IF text.len < ShortTextLimit
        THEN [score |-> 50, verdict |-> "Uncertain", confidence |-> "low",
              rationale |-> ShortRationale,
              sources |-> slice(generateMockSources(text, isGuest), 1)]
        ELSE IF isGuest
        THEN [score |-> score, verdict |-> "Uncertain", confidence |-> "low",
              rationale |-> GuestRationale, sources |-> slice(sources, 2)]
        ELSE [score |-> score, verdict |-> verdict, confidence |-> confidence,
              rationale |-> rationale, sources |-> sources]

NoResult == [none |-> TRUE]
NoVCall == [pc |-> "idle", token |-> JsNull, text |-> EmptyText]
NoVRet ==
    [impl |-> "none", outcome |-> "none", error |-> "", result |-> NoResult,
     token |-> JsNull, text |-> EmptyText,
     delayed |-> FALSE, drawn |-> FALSE, computed |-> FALSE]
NoPair ==
    [returned |-> FALSE, guest |-> FALSE, text |-> EmptyText, score |-> 0,
     verdict |-> "", confidence |-> "", rationale |-> ShortRationale]

\* what two mock results are compared on
Pair(ret) ==
    IF ret.impl = "mock" /\ ret.outcome = "result"
    THEN [returned |-> TRUE, guest |-> ~Truthy(ret.token), text |-> ret.text,
          score |-> ret.result.score, verdict |-> ret.result.verdict,
          confidence |-> ret.result.confidence,
          rationale |-> ret.result.rationale]
    ELSE NoPair

\* the exported verifyArticle(token, text) is called
CallVerifyArticle(tok, text) ==
    /\ vcall.pc = "idle"
    /\ vcall' = [pc |-> "called", token |-> tok, text |-> text]
    /\ vprev' = Pair(vret)
    /\ vret' = NoVRet
    /\ UNCHANGED <<storageVars, profileVars, authVars, updateVars, useMock, uiVars>>

\* the selected implementation runs up to its first await: the mock validates
\* and starts its delay, realAPI.verifyArticle sends the request
EnterVerifyArticle ==
    /\ vcall.pc = "called"
    /\ IF useMock
       THEN IF validate(vcall.text) # ""
            THEN /\ vret' = [NoVRet EXCEPT !.impl = "mock", !.outcome = "error",
                                           !.error = validate(vcall.text),
                                           !.token = vcall.token,
                                           !.text = vcall.text]
                 /\ vcall' = NoVCall
            ELSE /\ vcall' = [vcall EXCEPT !.pc = "delay"]
                 /\ vret' = vret
       ELSE /\ vcall' = [vcall EXCEPT !.pc = "fetch"]
            /\ vret' = vret
    /\ UNCHANGED <<storageVars, profileVars, authVars, updateVars, useMock, vprev, uiVars>>

\* the mock's delay is over: Math.random() is drawn (as a percentage), then the
\* result is computed
DelayElapsed(draw) ==
    /\ vcall.pc = "delay"
    /\ vret' = IF draw < ServerErrorPct
               THEN [NoVRet EXCEPT !.impl = "mock", !.outcome = "error",
                                   !.error = ServerError,
                                   !.token = vcall.token, !.text = vcall.text,
                                   !.delayed = TRUE, !.drawn = TRUE]
               ELSE [NoVRet EXCEPT !.impl = "mock", !.outcome = "result",
                                   !.result = mockResult(vcall.token, vcall.text),
                                   !.token = vcall.token, !.text = vcall.text,
                                   !.delayed = TRUE, !.drawn = TRUE,
                                   !.computed = TRUE]
    /\ vcall' = NoVCall
    /\ UNCHANGED <<storageVars, profileVars, authVars, updateVars, useMock, vprev, uiVars>>

\* the backend answers realAPI.verifyArticle's POST /api/verify_article
RespondFetch(resp) ==
    /\ vcall.pc = "fetch"
    /\ LET h == realVerifyArticle(resp, token, user)
       IN  vret' = [NoVRet EXCEPT !.impl = "real",
                                  !.outcome = IF h.threw THEN "error" ELSE "result",
                                  !.error = h.error, !.result = h.data,
                                  !.token = vcall.token, !.text = vcall.text]
    /\ vcall' = NoVCall
    /\ UNCHANGED <<storageVars, profileVars, authVars, updateVars, useMock, vprev, uiVars>>

\* calculateMockScore(text) applied on its own
CalculateMockScore ==
    /\ vcall.pc = "score"
    /\ vret' = [NoVRet EXCEPT !.impl = "score", !.outcome = "result",
                              !.result = [score |-> calculateMockScore(vcall.text)],
                              !.token = vcall.token, !.text = vcall.text,
                              !.computed = TRUE]
    /\ vcall' = NoVCall
    /\ UNCHANGED <<storageVars, profileVars, authVars, updateVars, useMock, vprev, uiVars>>

-----------------------------------------------------------------------------
(* Mock profile API: updateProfile *)

MinNameLen == 3
MaxNameLen == 30
MinPasswordLen == 8
UpdateErrorPct == 5

\* a string of n letters
Letters(n) == [i \in 1..n |-> "x"]

LowerChar(c) ==
    CASE c = "E" -> "e"
      [] c = "R" -> "r"
      [] c = "O" -> "o"
      [] OTHER -> c
\* String.prototype.toLowerCase, character by character
lowerCase(str) == [i \in 1..Len(str) |-> LowerChar(str[i])]

ReservedName == <<"e","r","r","o","r">>

\* the password argument: null, or a string of some length
NoPassword == [type |-> "null", len |-> 0]
Password(n) == [type |-> "string", len |-> n]

UsernameRequired == "Username is required"
UsernameTooShort == "Username must be at least 3 characters"
UsernameTooLong == "Username must be less than 30 characters"
UsernameInvalid == "Invalid username"
EmailInvalid == "Please enter a valid email address"
PasswordTooShort == "Password must be at least 8 characters"
UpdateServerError == "Server error: Unable to update profile. Please try again."
JsonSyntaxError == "SyntaxError: Unexpected token in JSON"
ValidationErrors ==
    {UsernameRequired, UsernameTooShort, UsernameTooLong, UsernameInvalid,
     EmailInvalid, PasswordTooShort}

\* a validation that looks at the e-mail address before the username
updateProfileCheck_EmailFirst(username, email, password) ==
    IF email = <<>> \/ ~isValidEmail(email) THEN EmailInvalid
    ELSE IF username = <<>> \/ Len(Trim(username)) = 0 THEN UsernameRequired
    ELSE IF Len(Trim(username)) < MinNameLen THEN UsernameTooShort
    ELSE IF Len(Trim(username)) > MaxNameLen THEN UsernameTooLong
    ELSE IF lowerCase(username) = ReservedName THEN UsernameInvalid
    ELSE IF password.type = "string" /\ password.len > 0
            /\ password.len < MinPasswordLen THEN PasswordTooShort
    ELSE ""

\* updateProfile up to its delay: the validation error, or ""
updateProfileCheck(username, email, password) ==
    IF username = <<>> \/ Len(Trim(username)) = 0 THEN UsernameRequired
    ELSE IF Len(Trim(username)) < MinNameLen THEN UsernameTooShort
    ELSE IF Len(Trim(username)) > MaxNameLen THEN UsernameTooLong
    ELSE IF lowerCase(username) = ReservedName THEN UsernameInvalid
    ELSE IF email = <<>> \/ ~isValidEmail(email) THEN EmailInvalid
    ELSE IF password.type = "string" /\ password.len > 0
            /\ password.len < MinPasswordLen THEN PasswordTooShort
    ELSE ""

\* { ...a, ...b }
Spread(a, b) ==
    [f \in DOMAIN a \cup DOMAIN b |-> IF f \in DOMAIN b THEN b[f] ELSE a[f]]

\* JSON.parse(item || '{}') can be evaluated
Parses(item) == item.kind # "text"
\* JSON.parse(item || '{}')
JSONparse(item) == IF item.kind = "json" THEN item.o ELSE [x \in {} |-> 0]

\* an update that writes the profile without looking at the cached user
updateProfileStore_NoMirror(profItem, userItem, username, email, bio) ==
    IF ~Parses(profItem)
    THEN [threw |-> TRUE, error |-> JsonSyntaxError,
          profile |-> profItem, user |-> userItem]
    ELSE [threw |-> FALSE, error |-> "",
          profile |-> ItemOf(JsJson(Spread(JSONparse(profItem),
                       [username |-> JsString(Trim(username)),
                        email |-> JsString(Trim(email)),
                        bio |-> JsString(Trim(bio))]))),
          user |-> userItem]

\* updateProfile from reading the stored profile on
updateProfileStore(profItem, userItem, username, email, bio) ==
    IF ~Parses(profItem)
    THEN [threw |-> TRUE, error |-> JsonSyntaxError,
          profile |-> profItem, user |-> userItem]
    ELSE LET updatedProfile ==
                 Spread(JSONparse(profItem),
                        [username |-> JsString(Trim(username)),
                         email |-> JsString(Trim(email)),
                         bio |-> JsString(Trim(bio))])
             written == ItemOf(JsJson(updatedProfile))
         IN  IF ~Parses(userItem)
             THEN [threw |-> TRUE, error |-> JsonSyntaxError,
                   profile |-> written, user |-> userItem]
             ELSE [threw |-> FALSE, error |-> "",
                   profile |-> written,
                   user |-> ItemOf(JsJson(Spread(JSONparse(userItem),
                               [username |-> updatedProfile.username,
                                email |-> updatedProfile.email])))]

NoUCall ==
    [pc |-> "idle", username |-> <<>>, email |-> <<>>, password |-> NoPassword,
     bio |-> <<>>]
NoURet ==
    [outcome |-> "none", error |-> "", delayed |-> FALSE,
     username |-> <<>>, email |-> <<>>, password |-> NoPassword,
     before |-> [profile |-> NoProfile, user |-> NoUser]]

URet(outcome, error, delayed) ==
    [outcome |-> outcome, error |-> error, delayed |-> delayed,
     username |-> ucall.username, email |-> ucall.email,
     password |-> ucall.password,
     before |-> [profile |-> profile, user |-> user]]

\* updateProfile({ username, email, password, bio }) is called
CallUpdateProfile(username, email, password, bio) ==
    /\ ucall.pc = "idle"
    /\ ucall' = [pc |-> "called", username |-> username, email |-> email,
                 password |-> password, bio |-> bio]
    /\ uret' = NoURet
    /\ UNCHANGED <<storageVars, profileVars, authVars, verifyVars, uiVars>>

\* updateProfile runs up to its first await
EnterUpdateProfile ==
    /\ ucall.pc = "called"
    /\ LET e == updateProfileCheck(ucall.username, ucall.email, ucall.password)
       IN  IF e # ""
           THEN /\ uret' = URet("error", e, FALSE)
                /\ ucall' = NoUCall
           ELSE /\ ucall' = [ucall EXCEPT !.pc = "delay"]
                /\ uret' = uret
    /\ UNCHANGED <<storageVars, profileVars, authVars, verifyVars, uiVars>>

\* the delay is over: Math.random() is drawn (as a percentage), then the profile
\* and the cached user are rewritten
UpdateDelayElapsed(draw) ==
    /\ ucall.pc = "delay"
    /\ IF draw < UpdateErrorPct
       THEN /\ uret' = URet("error", UpdateServerError, TRUE)
            /\ UNCHANGED <<profile, user>>
       ELSE LET w == updateProfileStore(profile, user, ucall.username,
                                        ucall.email, ucall.bio)
            IN  /\ uret' = URet(IF w.threw THEN "error" ELSE "ok", w.error, TRUE)
                /\ profile' = w.profile
                /\ user' = w.user
    /\ ucall' = NoUCall
    /\ UNCHANGED <<token, verification, profileVars, authVars, verifyVars, uiVars>>

-----------------------------------------------------------------------------
(* The profile page *)

MaxSaves == 2

\* the updates object of ProfileEditForm's handleSubmit, or null; n numbers the
\* submits and changed records updates.email !== profile.email at the submit
NoUpdates ==
    [present |-> FALSE, username |-> <<>>, email |-> <<>>, bio |-> <<>>,
     password |-> NoPassword, n |-> 0, changed |-> FALSE]

\* ProfileEditForm.validateForm
validateForm(formData) ==
    /\ Len(Trim(formData.username)) >= MinNameLen
    /\ Len(Trim(formData.username)) <= MaxNameLen
    /\ Len(Trim(formData.email)) > 0
    /\ isValidEmail(formData.email)
    /\ \/ formData.password.len = 0
       \/ /\ formData.password.len >= MinPasswordLen
          /\ formData.confirmed

\* the updates ProfileEditForm.handleSubmit hands to onSave
FormUpdates(formData) ==
    [present |-> TRUE, username |-> Trim(formData.username),
     email |-> Trim(formData.email), bio |-> Trim(formData.bio),
     password |-> IF formData.password.len > 0 THEN formData.password
                  ELSE NoPassword,
     n |-> 0, changed |-> FALSE]

\* a handler of the page that is not running; a running one holds the values
\* its closure captured when it was called
NoJob ==
    [pc |-> "idle", updates |-> NoUpdates, verificationId |-> BogusId,
     code |-> <<>>, newEmail |-> <<>>, verified |-> <<>>]

\* no awaited call threw in the page's last step
NoCaught == [by |-> "none", message |-> ""]

NoApplied ==
    [n |-> 0, by |-> "none", changed |-> FALSE, verified |-> <<>>,
     email |-> <<>>, discarded |-> FALSE, challenged |-> FALSE]

\* the profile that loadProfile put into the page
LoadedProfile ==
    [username |-> <<"d","e","m","o">>, email |-> <<"n","@","b",".","c">>,
     bio |-> <<>>]

InitPageState ==
    [profile |-> LoadedProfile, isLoading |-> FALSE, isEditMode |-> FALSE,
     isSaving |-> FALSE,
     error |-> "", successMessage |-> "", showVerificationModal |-> FALSE,
     verificationId |-> BogusId, newEmail |-> <<>>, verificationError |-> "",
     isVerifying |-> FALSE, pendingUpdates |-> NoUpdates]

InitPageIdle ==
    /\ pstate = InitPageState
    /\ pjobs = [handleSave |-> NoJob, handleVerifyEmail |-> NoJob,
                handleResendCode |-> NoJob, loadProfile |-> NoJob]
    /\ plog = [saves |-> 0, sends |-> {}, discarded |-> {},
               applied |-> NoApplied, closed |-> FALSE,
               caught |-> NoCaught]

\* the requests of the page that have not resolved
InFlight == Cardinality({h \in DOMAIN pjobs : pjobs[h].pc # "idle"})

\* the profile object updateProfile resolves with
ReturnedProfile(item) ==
    [username |-> item.o.username.s, email |-> item.o.email.s,
     bio |-> item.o.bio.s]

\* updateProfile is called with these updates by this handler
Applied(updates, by, verified) ==
    [n |-> updates.n, by |-> by, changed |-> updates.changed,
     verified |-> verified, email |-> updates.email,
     discarded |-> updates.n \in plog.discarded,
     challenged |-> updates.n \in plog.sends]

\* `verify_${Date.now()}_${Math.random().toString(36).substr(2, 9)}` does not
\* repeat an id that is still held somewhere: the suffix drawn is the first one
\* that no stored challenge, page state or awaiting handler holds
PageSuffixes == <<"k3x", "q7p", "z1a", "m4d">>
HeldIds ==
    {pstate.verificationId, pjobs.handleVerifyEmail.verificationId}
    \cup (IF verification.present THEN {verification.verificationId} ELSE {})
FreshSuffix ==
    LET free == {i \in 1..Len(PageSuffixes) :
                    [t |-> now, r |-> PageSuffixes[i]] \notin HeldIds}
    IN  PageSuffixes[CHOOSE i \in free : \A j \in free : i <= j]

\* the catch and finally blocks of handleSave, for an error with this message
saveCaught(st, message) ==
    [st EXCEPT !.error = IF message # "" THEN message
                         ELSE "Failed to update profile",
               !.isSaving = FALSE]

\* a handleVerifyEmail whose catch block has no finally after it
verifyCaught_NoFinally(st, message) ==
    [st EXCEPT !.verificationError = message]

\* the catch and finally blocks of handleVerifyEmail
verifyCaught(st, message) ==
    [st EXCEPT !.verificationError = message, !.isVerifying = FALSE]

\* the awaited call of handler h threw an error with this message
Thrown(log, h, message) ==
    [log EXCEPT !.caught = IF message = "" THEN NoCaught
                           ELSE [by |-> h, message |-> message]]
Quiet(log) == [log EXCEPT !.caught = NoCaught]

\* err.message.includes('Not authenticated'), on the messages an error can carry
MentionsNotAuthenticated(message) ==
    message \in {NotAuthenticated, "Not authenticated"}

\* the catch and finally blocks of loadProfile: the job that is left is the
\* redirect timer, if one was set
loadCaught(st, message) ==
    [state |-> [st EXCEPT !.error = message, !.isLoading = FALSE],
     pc |-> IF MentionsNotAuthenticated(message) THEN "timer" ELSE "idle"]

\* the page before its mount effect has run
MountingPageState ==
    [InitPageState EXCEPT !.profile = JsNull, !.isLoading = TRUE]

\* the mount effect: loadProfile() up to its first await
loadProfile ==
    /\ mounted = "ProfilePage"
    /\ pstate = MountingPageState
    /\ pjobs.loadProfile.pc = "idle"
    /\ LET e == getCurrentUserGuard(token)
           c == loadCaught(pstate, e)
       IN  IF e # ""
           THEN /\ pstate' = c.state
                /\ pjobs' = [pjobs EXCEPT !.loadProfile.pc = c.pc]
                /\ plog' = Thrown(plog, "loadProfile", e)
           ELSE /\ pstate' = pstate
                /\ pjobs' = [pjobs EXCEPT !.loadProfile.pc = "fetch"]
                /\ plog' = Quiet(plog)
    /\ UNCHANGED <<storageVars, profileVars, authVars, verifyVars, checkerVars,
                   shellVars, updateVars>>

\* loadProfile after await getCurrentUser(): GET /users/me has been answered
LoadResolved(resp) ==
    /\ mounted = "ProfilePage"
    /\ pjobs.loadProfile.pc = "fetch"
    /\ LET h == Fetched(resp, token, user)
           c == loadCaught(pstate, h.error)
       IN  /\ token' = h.token
           /\ user' = IF h.threw THEN h.user
                      ELSE ItemOf(JSONstringify(JsObject(h.data)))
           /\ IF h.threw
              THEN /\ pstate' = c.state
                   /\ pjobs' = [pjobs EXCEPT !.loadProfile.pc = c.pc]
                   /\ plog' = Thrown(plog, "loadProfile", h.error)
              ELSE /\ pstate' = [pstate EXCEPT !.profile = JsObject(h.data),
                                               !.isLoading = FALSE]
                   /\ pjobs' = [pjobs EXCEPT !.loadProfile.pc = "idle"]
                   /\ plog' = Quiet(plog)
    /\ UNCHANGED <<profile, verification, profileVars, authVars, verifyVars,
                   checkerVars, shellVars, updateVars>>

\* the timer set by loadProfile fires: navigate('/auth')
RedirectTimer ==
    /\ mounted = "ProfilePage"
    /\ pjobs.loadProfile.pc = "timer"
    /\ mounted' = "LoginPage"
    /\ pjobs' = [pjobs EXCEPT !.loadProfile.pc = "idle"]
    /\ plog' = Quiet(plog)
    /\ UNCHANGED <<storageVars, profileVars, authVars, verifyVars, checkerVars,
                   lstate, mlogin, updateVars, pstate>>

\* what the page renders: the skeleton, the 'Authentication Required' notice,
\* nothing at all, or the profile
Rendered ==
    IF pstate.isLoading THEN "skeleton"
    ELSE IF pstate.error # "" /\ MentionsNotAuthenticated(pstate.error)
    THEN "errorState"
    ELSE IF pstate.profile = JsNull THEN "null"
    ELSE "profile"

\* the edit form is on screen and enabled
FormEnabled ==
    /\ pstate.isEditMode
    /\ ~pstate.isSaving
    /\ ~pstate.showVerificationModal

handleEditClick ==
    /\ ~pstate.isEditMode
    /\ ~pstate.showVerificationModal
    /\ pstate' = [pstate EXCEPT !.isEditMode = TRUE, !.error = "",
                                !.successMessage = ""]
    /\ UNCHANGED <<storageVars, profileVars, authVars, verifyVars, checkerVars, shellVars, updateVars,
                   pjobs>>
    /\ plog' = Quiet(plog)

handleCancel ==
    /\ FormEnabled
    /\ pstate' = [pstate EXCEPT !.isEditMode = FALSE, !.error = ""]
    /\ UNCHANGED <<storageVars, profileVars, authVars, verifyVars, checkerVars, shellVars, updateVars,
                   pjobs>>
    /\ plog' = Quiet(plog)

\* the form is submitted: handleSave(updates) up to its first await
handleSave(formData) ==
    /\ FormEnabled
    /\ validateForm(formData)
    /\ plog.saves < MaxSaves
    /\ LET changed == FormUpdates(formData).email # pstate.profile.email
           updates == [FormUpdates(formData) EXCEPT !.n = plog.saves + 1,
                                                    !.changed = changed]
           job == [NoJob EXCEPT !.updates = updates]
           e == updateProfileCheck(updates.username, updates.email,
                                   updates.password)
       IN  IF changed
           THEN IF ~isValidEmail(updates.email)
                THEN /\ pstate' = saveCaught(
                                      [pstate EXCEPT !.pendingUpdates = updates,
                                                     !.newEmail = updates.email],
                                      "Invalid email address")
                     /\ plog' = [Thrown(plog, "handleSave", "Invalid email address")
                                    EXCEPT !.saves = plog.saves + 1]
                     /\ pjobs' = pjobs
                ELSE /\ pstate' = [pstate EXCEPT !.error = "",
                                       !.isSaving = TRUE,
                                       !.pendingUpdates = updates,
                                       !.newEmail = updates.email]
                     /\ pjobs' = [pjobs EXCEPT !.handleSave =
                                      [job EXCEPT !.pc = "send"]]
                     /\ plog' = [Thrown(plog, "handleSave", "")
                                    EXCEPT !.saves = plog.saves + 1,
                                           !.sends = @ \cup {plog.saves + 1}]
           ELSE IF e # ""
                THEN /\ pstate' = saveCaught(pstate, e)
                     /\ plog' = [Thrown(plog, "handleSave", e)
                                    EXCEPT !.saves = plog.saves + 1,
                                           !.applied = Applied(updates, "handleSave", <<>>)]
                     /\ pjobs' = pjobs
                ELSE /\ pstate' = [pstate EXCEPT !.error = "", !.isSaving = TRUE]
                     /\ pjobs' = [pjobs EXCEPT !.handleSave =
                                      [job EXCEPT !.pc = "update"]]
                     /\ plog' = [Thrown(plog, "handleSave", "")
                                    EXCEPT !.saves = plog.saves + 1,
                                           !.applied = Applied(updates, "handleSave", <<>>)]
    /\ UNCHANGED <<storageVars, profileVars, authVars, verifyVars, checkerVars, shellVars, updateVars>>

\* handleSave after await sendEmailVerification(updates.email)
SaveSendResolved(code, rand) ==
    /\ pjobs.handleSave.pc = "send"
    /\ LET r == sendEmailVerification(verification,
                                      pjobs.handleSave.updates.email,
                                      code, rand, now)
       IN  /\ verification' = r.store
           /\ pstate' = [pstate EXCEPT !.verificationId = r.verificationId,
                                       !.showVerificationModal = TRUE,
                                       !.isSaving = FALSE]
    /\ pjobs' = [pjobs EXCEPT !.handleSave = NoJob]
    /\ UNCHANGED <<token, user, profile, profileVars, authVars, verifyVars, checkerVars, shellVars,
                   updateVars>>
    /\ plog' = Quiet(plog)

\* handleSave after await updateProfile(updates)
SaveUpdateResolved(draw) ==
    /\ pjobs.handleSave.pc = "update"
    /\ LET u == pjobs.handleSave.updates
           w == updateProfileStore(profile, user, u.username, u.email, u.bio)
       IN  IF draw < UpdateErrorPct
           THEN /\ pstate' = saveCaught(pstate, UpdateServerError)
                /\ plog' = Thrown(plog, "handleSave", UpdateServerError)
                /\ UNCHANGED <<profile, user>>
           ELSE /\ profile' = w.profile
                /\ user' = w.user
                /\ plog' = IF w.threw THEN Thrown(plog, "handleSave", w.error)
                           ELSE Quiet(plog)
                /\ pstate' =
                     IF w.threw
                     THEN saveCaught(pstate, w.error)
                     ELSE [pstate EXCEPT !.profile = ReturnedProfile(w.profile),
                                         !.isEditMode = FALSE,
                                         !.successMessage =
                                             "Profile updated successfully!",
                                         !.isSaving = FALSE]
    /\ pjobs' = [pjobs EXCEPT !.handleSave = NoJob]
    /\ UNCHANGED <<token, verification, profileVars, authVars, verifyVars,
                   checkerVars, shellVars, updateVars>>

\* the modal's form is submitted: handleVerifyEmail(code) up to its first await
handleVerifyEmail(code) ==
    /\ pstate.showVerificationModal
    /\ ~pstate.isVerifying
    /\ Len(code) = 6
    /\ pstate' = [pstate EXCEPT !.isVerifying = TRUE, !.verificationError = ""]
    /\ pjobs' = [pjobs EXCEPT !.handleVerifyEmail =
                     [NoJob EXCEPT !.pc = "verify",
                                   !.verificationId = pstate.verificationId,
                                   !.code = code,
                                   !.updates = pstate.pendingUpdates]]
    /\ plog' = Thrown(plog, "handleVerifyEmail", "")
    /\ UNCHANGED <<storageVars, profileVars, authVars, verifyVars, checkerVars, shellVars, updateVars>>

\* handleVerifyEmail after await verifyEmail(verificationId, code), up to its
\* next await
VerifyResolved ==
    /\ pjobs.handleVerifyEmail.pc = "verify"
    /\ LET job == pjobs.handleVerifyEmail
           r == verifyEmail(verification, job.verificationId, job.code, now)
           u == job.updates
           e == updateProfileCheck(u.username, u.email, u.password)
       IN  /\ verification' = r.store
           /\ IF r.outcome # "Success"
              THEN /\ pstate' = verifyCaught(pstate, r.outcome)
                   /\ pjobs' = [pjobs EXCEPT !.handleVerifyEmail = NoJob]
                   /\ plog' = Thrown(plog, "handleVerifyEmail", r.outcome)
              ELSE IF ~u.present
              THEN /\ pstate' = [pstate EXCEPT !.showVerificationModal = FALSE,
                                     !.isEditMode = FALSE,
                                     !.successMessage =
                                         "Email verified and profile updated successfully!",
                                     !.isVerifying = FALSE]
                   /\ pjobs' = [pjobs EXCEPT !.handleVerifyEmail = NoJob]
                   /\ plog' = Quiet(plog)
              ELSE IF e # ""
              THEN /\ pstate' = verifyCaught(pstate, e)
                   /\ pjobs' = [pjobs EXCEPT !.handleVerifyEmail = NoJob]
                   /\ plog' = [Thrown(plog, "handleVerifyEmail", e)
                                  EXCEPT !.applied =
                                      Applied(u, "handleVerifyEmail", r.email)]
              ELSE /\ pstate' = pstate
                   /\ pjobs' = [pjobs EXCEPT !.handleVerifyEmail =
                                    [job EXCEPT !.pc = "update",
                                                !.verified = r.email]]
                   /\ plog' = [Quiet(plog) EXCEPT !.applied =
                                   Applied(u, "handleVerifyEmail", r.email)]
    /\ UNCHANGED <<token, user, profile, profileVars, authVars, verifyVars, checkerVars, shellVars,
                   updateVars>>

\* handleVerifyEmail after await updateProfile(pendingUpdates)
VerifyUpdateResolved(draw) ==
    /\ pjobs.handleVerifyEmail.pc = "update"
    /\ LET u == pjobs.handleVerifyEmail.updates
           w == updateProfileStore(profile, user, u.username, u.email, u.bio)
       IN  IF draw < UpdateErrorPct
           THEN /\ pstate' = verifyCaught(pstate, UpdateServerError)
                /\ plog' = Thrown(plog, "handleVerifyEmail", UpdateServerError)
                /\ UNCHANGED <<profile, user>>
           ELSE /\ profile' = w.profile
                /\ user' = w.user
                /\ plog' = IF w.threw
                           THEN Thrown(plog, "handleVerifyEmail", w.error)
                           ELSE Quiet(plog)
                /\ pstate' =
                     IF w.threw
                     THEN verifyCaught(pstate, w.error)
                     ELSE [pstate EXCEPT !.profile = ReturnedProfile(w.profile),
                                         !.pendingUpdates = NoUpdates,
                                         !.showVerificationModal = FALSE,
                                         !.isEditMode = FALSE,
                                         !.successMessage =
                                             "Email verified and profile updated successfully!",
                                         !.isVerifying = FALSE]
    /\ pjobs' = [pjobs EXCEPT !.handleVerifyEmail = NoJob]
    /\ UNCHANGED <<token, verification, profileVars, authVars, verifyVars,
                   checkerVars, shellVars, updateVars>>

\* the modal's resend button: handleResendCode() up to its first await; the
\* modal hides the button for 60 s after a click, longer than the request takes
handleResendCode ==
    /\ pstate.showVerificationModal
    /\ ~pstate.isVerifying
    /\ pjobs.handleResendCode.pc = "idle"
    /\ IF ~isValidEmail(pstate.newEmail)
       THEN /\ pstate' = [pstate EXCEPT !.verificationError = "Invalid email address"]
            /\ pjobs' = pjobs
            /\ plog' = Quiet(plog)
       ELSE /\ pjobs' = [pjobs EXCEPT !.handleResendCode =
                             [NoJob EXCEPT !.pc = "send",
                                           !.newEmail = pstate.newEmail]]
            /\ pstate' = pstate
            /\ plog' = Quiet(plog)
    /\ UNCHANGED <<storageVars, profileVars, authVars, verifyVars, checkerVars, shellVars, updateVars>>

\* handleResendCode after await sendEmailVerification(newEmail)
ResendResolved(code, rand) ==
    /\ pjobs.handleResendCode.pc = "send"
    /\ LET r == sendEmailVerification(verification,
                                      pjobs.handleResendCode.newEmail,
                                      code, rand, now)
       IN  /\ verification' = r.store
           /\ pstate' = [pstate EXCEPT !.verificationId = r.verificationId,
                                       !.verificationError = ""]
    /\ pjobs' = [pjobs EXCEPT !.handleResendCode = NoJob]
    /\ UNCHANGED <<token, user, profile, profileVars, authVars, verifyVars, checkerVars, shellVars,
                   updateVars>>
    /\ plog' = Quiet(plog)

\* the modal is closed: by its close button while that is enabled, by the
\* Escape key or a click on the backdrop at any time
handleCloseVerification ==
    /\ pstate.showVerificationModal
    /\ pstate' = [pstate EXCEPT !.showVerificationModal = FALSE,
                                !.verificationError = "",
                                !.pendingUpdates = NoUpdates,
                                !.newEmail = <<>>,
                                !.isSaving = FALSE]
    /\ plog' = [Quiet(plog) EXCEPT
                   !.discarded = IF pstate.pendingUpdates.present
                                 THEN @ \cup {pstate.pendingUpdates.n} ELSE @,
                   !.closed = TRUE]
    /\ UNCHANGED <<storageVars, profileVars, authVars, verifyVars, checkerVars, shellVars, updateVars,
                   pjobs>>

-----------------------------------------------------------------------------
(* The checker page *)

\* localStorage.getItem('truthlens_token') as a JavaScript value
StoredToken == IF token = NoItem THEN JsNull ELSE JsString(token)

\* a text in a boolean position: if (pendingText)
NonEmpty(text) == text.len > 0

InitCheckerState ==
    [isLoggedIn |-> FALSE, isLoading |-> FALSE, result |-> NoResult,
     error |-> "", showAuthModal |-> FALSE, pendingText |-> EmptyText]

NoHandled ==
    [op |-> "none", loggedIn |-> FALSE, text |-> EmptyText,
     pendingBefore |-> EmptyText, opened |-> "none", calls |-> 0,
     token |-> JsNull, ctext |-> EmptyText]

InitCheckerIdle ==
    /\ cstate = InitCheckerState
    /\ cjobs = <<>>
    /\ clog = [last |-> NoHandled, opened |-> "none", caught |-> ""]

\* what the page's last handler did
Handled(op, text, calls, tok, ctext) ==
    [op |-> op, loggedIn |-> cstate.isLoggedIn, text |-> text,
     pendingBefore |-> cstate.pendingText, opened |-> clog.opened,
     calls |-> calls, token |-> tok, ctext |-> ctext]

\* CheckerCard takes submissions while the page is not loading
CardEnabled == ~cstate.isLoading

\* ResultPanel offers its buttons while there is a result to show
PanelShown == cstate.result # NoResult

\* the catch and finally blocks of performCheck, for an error with this message
checkCaught(st, message) ==
    [st EXCEPT !.error = IF message # "" THEN message
                         ELSE "Failed to verify document. Please try again.",
               !.isLoading = FALSE]

\* a performCheck that reads the stored token for guests too
performCheck_StoredToken(st, text, asGuest) ==
    LET tok == StoredToken
        e == IF useMock THEN validate(text) ELSE ""
    IN  IF e # ""
        THEN [state |-> checkCaught([st EXCEPT !.result = NoResult], e),
              jobs |-> cjobs, token |-> tok, caught |-> e]
        ELSE [state |-> [st EXCEPT !.isLoading = TRUE, !.error = "",
                                   !.result = NoResult],
              jobs |-> Append(cjobs,
                              [pc |-> IF useMock THEN "delay" ELSE "fetch",
                               token |-> tok, text |-> text]),
              token |-> tok, caught |-> ""]

\* a performCheck without setResult(null)
performCheck_KeepResult(st, text, asGuest) ==
    LET tok == IF asGuest THEN JsNull ELSE StoredToken
        e == IF useMock THEN validate(text) ELSE ""
    IN  IF e # ""
        THEN [state |-> checkCaught(st, e),
              jobs |-> cjobs, token |-> tok, caught |-> e]
        ELSE [state |-> [st EXCEPT !.isLoading = TRUE, !.error = ""],
              jobs |-> Append(cjobs,
                              [pc |-> IF useMock THEN "delay" ELSE "fetch",
                               token |-> tok, text |-> text]),
              token |-> tok, caught |-> ""]

\* performCheck(text, asGuest) up to its first await, on the page state st: the
\* mock rejects an invalid text before it awaits anything
performCheck(st, text, asGuest) ==
    LET tok == IF asGuest THEN JsNull ELSE StoredToken
        e == IF useMock THEN validate(text) ELSE ""
    IN  IF e # ""
        THEN [state |-> checkCaught([st EXCEPT !.result = NoResult], e),
              jobs |-> cjobs, token |-> tok, caught |-> e]
        ELSE [state |-> [st EXCEPT !.isLoading = TRUE, !.error = "",
                                   !.result = NoResult],
              jobs |-> Append(cjobs,
                              [pc |-> IF useMock THEN "delay" ELSE "fetch",
                               token |-> tok, text |-> text]),
              token |-> tok, caught |-> ""]

QuietCheck == [clog EXCEPT !.caught = ""]

\* the useEffect of the mount
Mount ==
    /\ clog.last.op = "none"
    /\ cstate' = [cstate EXCEPT !.isLoggedIn = HasToken(token)]
    /\ clog' = [QuietCheck EXCEPT !.last = Handled("mount", EmptyText, 0, JsNull, EmptyText)]
    /\ UNCHANGED <<storageVars, profileVars, authVars, verifyVars, updateVars, shellVars,
                   pageVars, cjobs>>

\* CheckerCard submits a text
handleCheckDocument(text) ==
    /\ clog.last.op # "none"
    /\ CardEnabled
    /\ IF ~cstate.isLoggedIn
       THEN /\ cstate' = [cstate EXCEPT !.pendingText = text,
                                        !.showAuthModal = TRUE]
            /\ cjobs' = cjobs
            /\ clog' = [QuietCheck EXCEPT !.last = Handled("handleCheckDocument", text,
                                                     0, JsNull, EmptyText),
                                    !.opened = "submit"]
       ELSE LET p == performCheck(cstate, text, FALSE)
            IN  /\ cstate' = p.state
                /\ cjobs' = p.jobs
                /\ clog' = [QuietCheck EXCEPT !.last =
                               Handled("handleCheckDocument", text, 1, p.token,
                                       text),
                                        !.caught = p.caught]
    /\ UNCHANGED <<storageVars, profileVars, authVars, verifyVars, updateVars, shellVars,
                   pageVars>>

\* the auth prompt's 'continue as guest'
handleContinueAsGuest ==
    /\ cstate.showAuthModal
    /\ IF NonEmpty(cstate.pendingText)
       THEN LET p == performCheck([cstate EXCEPT !.showAuthModal = FALSE],
                                  cstate.pendingText, TRUE)
            IN  /\ cstate' = [p.state EXCEPT !.pendingText = EmptyText]
                /\ cjobs' = p.jobs
                /\ clog' = [last |-> Handled("handleContinueAsGuest", EmptyText,
                                             1, p.token, cstate.pendingText),
                            opened |-> "none", caught |-> p.caught]
       ELSE /\ cstate' = [cstate EXCEPT !.showAuthModal = FALSE]
            /\ cjobs' = cjobs
            /\ clog' = [QuietCheck EXCEPT !.last = Handled("handleContinueAsGuest",
                                                     EmptyText, 0, JsNull,
                                                     EmptyText),
                                    !.opened = "none"]
    /\ UNCHANGED <<storageVars, profileVars, authVars, verifyVars, updateVars, shellVars,
                   pageVars>>

\* the auth prompt is closed
CloseAuthModal ==
    /\ cstate.showAuthModal
    /\ cstate' = [cstate EXCEPT !.showAuthModal = FALSE]
    /\ clog' = [QuietCheck EXCEPT !.last = Handled("onClose", EmptyText, 0, JsNull,
                                             EmptyText),
                            !.opened = "none"]
    /\ UNCHANGED <<storageVars, profileVars, authVars, verifyVars, updateVars, shellVars,
                   pageVars, cjobs>>

handleCheckAgain ==
    /\ PanelShown
    /\ cstate' = [cstate EXCEPT !.result = NoResult, !.error = ""]
    /\ clog' = [QuietCheck EXCEPT !.last =
                   Handled("handleCheckAgain", EmptyText, 0, JsNull, EmptyText)]
    /\ UNCHANGED <<storageVars, profileVars, authVars, verifyVars, updateVars, shellVars,
                   pageVars, cjobs>>

\* the ✕ of the error display
DismissError ==
    /\ cstate.error # ""
    /\ cstate' = [cstate EXCEPT !.error = ""]
    /\ clog' = [QuietCheck EXCEPT !.last =
                   Handled("dismissError", EmptyText, 0, JsNull, EmptyText)]
    /\ UNCHANGED <<storageVars, profileVars, authVars, verifyVars, updateVars,
                   shellVars, pageVars, cjobs>>

handleViewFullReport ==
    /\ PanelShown
    /\ cstate' = IF ~cstate.isLoggedIn
                 THEN [cstate EXCEPT !.showAuthModal = TRUE]
                 ELSE cstate
    /\ clog' = [QuietCheck EXCEPT !.last = Handled("handleViewFullReport", EmptyText,
                                             0, JsNull, EmptyText),
                            !.opened = IF ~cstate.isLoggedIn /\ ~cstate.showAuthModal
                                       THEN "report" ELSE clog.opened]
    /\ UNCHANGED <<storageVars, profileVars, authVars, verifyVars, updateVars, shellVars,
                   pageVars, cjobs>>

\* performCheck after await verifyArticle(token, text): the mock has drawn
\* Math.random() (as a percentage), the backend has answered the real client
CheckResolvedAt(i, draw, resp) ==
    /\ LET job == cjobs[i]
           h == realVerifyArticle(resp, token, user)
           threw == IF job.pc = "delay" THEN draw < ServerErrorPct ELSE h.threw
           message == IF job.pc = "delay" THEN ServerError ELSE h.error
           verificationResult == IF job.pc = "delay"
                                 THEN mockResult(job.token, job.text)
                                 ELSE h.data
       IN  /\ cstate' = IF threw
                         THEN checkCaught(cstate, message)
                         ELSE [cstate EXCEPT !.result = verificationResult,
                                             !.isLoading = FALSE]
           /\ clog' = IF threw THEN [clog EXCEPT !.caught = message]
                      ELSE QuietCheck
    /\ cjobs' = SubSeq(cjobs, 1, i - 1) \o SubSeq(cjobs, i + 1, Len(cjobs))
    /\ UNCHANGED <<storageVars, profileVars, authVars, verifyVars, updateVars, shellVars,
                   pageVars>>

\* one of the awaiting invocations resumes
CheckResolved(draw, resp) ==
    \E i \in 1..Len(cjobs) : CheckResolvedAt(i, draw, resp)

\* login() in another tab stores a token; logout() there removes it
LoginElsewhere ==
    /\ token = NoItem
    /\ token' = "tokA"
    /\ UNCHANGED <<user, profile, verification, profileVars, authVars,
                   verifyVars, updateVars, uiVars>>

LogoutElsewhere ==
    /\ token # NoItem
    /\ token' = logout(token, user, profile).token
    /\ user' = logout(token, user, profile).user
    /\ profile' = logout(token, user, profile).profile
    /\ UNCHANGED <<verification, profileVars, authVars, verifyVars, updateVars,
                   uiVars>>

InitLoginState == [isLoading |-> FALSE, error |-> ""]

-----------------------------------------------------------------------------
(* Mock authentication API of the login page *)

\* a string of a credentials object: its text without the white space around
\* it, and the number of white-space characters around it
Cred(core, pad) == [type |-> "string", core |-> core, pad |-> pad]

\* !username, !password
Falsy(v) == v = JsUndefined \/ (v.core = "" /\ v.pad = 0)

\* username.trim().length === 0
TrimmedEmpty(v) == v.core = ""

\* cred.username === username
SameText(text, v) == v.pad = 0 /\ v.core = text

LoginErrorPct == 5
LoginServerError == "Server error: Unable to process login. Please try again."
InvalidLogin == "Invalid username or password"

validCredentials ==
    << [username |-> "testuser", email |-> "test@truthlens.com",
        password |-> "1234"],
       [username |-> "demo", email |-> "demo@truthlens.com",
        password |-> "demo123"],
       [username |-> "admin", email |-> "admin@truthlens.com",
        password |-> "admin123"] >>

NoMockReturn ==
    [threw |-> FALSE, error |-> "", status |-> 0, message |-> "",
     token |-> JsUndefined, user |-> JsUndefined, delayed |-> FALSE]

MockThrew(error, delayed) ==
    [NoMockReturn EXCEPT !.threw = TRUE, !.error = error, !.delayed = delayed]

\* the fake JWT: a fixed header, the encoded { username, email, exp } and a
\* fixed signature, as one string
TokenLifeMs == 86400000
fakeToken(cred) ==
    [type |-> "string",
     jwt |-> [username |-> cred.username, email |-> cred.email,
              exp |-> now + TokenLifeMs]]

\* the checks of mockLogin before its simulated delay
mockLoginCheck(username, password) ==
    IF Falsy(username) \/ Falsy(password)
    THEN "Username and password are required"
    ELSE IF TrimmedEmpty(username) \/ TrimmedEmpty(password)
    THEN "Username and password cannot be empty"
    ELSE ""

\* a find that compares the username only
findCredentials_UsernameOnly(username, password) ==
    LET hits == {i \in 1..Len(validCredentials) :
                    /\ SameText(validCredentials[i].username, username)
                    /\ SameText(validCredentials[i].password, password)}
    IN  IF hits = {} THEN 0 ELSE CHOOSE i \in hits : \A j \in hits : i <= j

\* validCredentials.find(...): the index of the first match, 0 for undefined
findCredentials(username, password) ==
    LET hits == {i \in 1..Len(validCredentials) :
                    /\ \/ SameText(validCredentials[i].username, username)
                       \/ SameText(validCredentials[i].email, username)
                    /\ SameText(validCredentials[i].password, password)}
    IN  IF hits = {} THEN 0 ELSE CHOOSE i \in hits : \A j \in hits : i <= j

\* mockLogin after its simulated delay; draw is Math.random() as a percentage
mockLoginAnswer(username, password, draw) ==
    LET i == findCredentials(username, password)
    IN  IF draw < LoginErrorPct
        THEN MockThrew(LoginServerError, TRUE)
        ELSE IF i # 0
        THEN [threw |-> FALSE, error |-> "", status |-> 200,
              message |-> "Login successful",
              token |-> fakeToken(validCredentials[i]),
              user |-> JsObject([username |-> validCredentials[i].username,
                                 email |-> validCredentials[i].email]),
              delayed |-> TRUE]
        ELSE MockThrew(InvalidLogin, TRUE)

NoMockLogin ==
    [pc |-> "none", username |-> JsUndefined, password |-> JsUndefined,
     draw |-> 0, ret |-> NoMockReturn]

\* mockLogin({ username, password }) up to its first await
MockLoginCalled ==
    /\ mlogin.pc = "called"
    /\ LET e == mockLoginCheck(mlogin.username, mlogin.password)
       IN  mlogin' = IF e # ""
                     THEN [mlogin EXCEPT !.pc = "done", !.ret = MockThrew(e, FALSE)]
                     ELSE [mlogin EXCEPT !.pc = "delay"]
    /\ UNCHANGED <<storageVars, profileVars, authVars, verifyVars, updateVars,
                   pageVars, checkerVars, lstate, mounted>>

\* mockLogin after await simulateDelay()
MockLoginDelayElapsed(draw) ==
    /\ mlogin.pc = "delay"
    /\ mlogin' = [mlogin EXCEPT !.pc = "done", !.draw = draw,
                                !.ret = mockLoginAnswer(mlogin.username,
                                                        mlogin.password, draw)]
    /\ UNCHANGED <<storageVars, profileVars, authVars, verifyVars, updateVars,
                   pageVars, checkerVars, lstate, mounted>>

InitUiIdle ==
    /\ InitPageIdle
    /\ InitCheckerIdle
    /\ lstate = InitLoginState
    /\ mounted = "none"
    /\ mlogin = NoMockLogin

InitStorage ==
    /\ token = NoItem
    /\ user = NoUser
    /\ profile = NoProfile
    /\ verification = NoChallenge

InitAuthIdle ==
    /\ flow = NoFlow
    /\ lastReq = NoReq
    /\ apiRet = NoRet
    /\ pageRet = NoPage
    /\ session = [loggedOut |-> FALSE, cleared |-> TRUE, hadToken |-> FALSE]

InitVerifyIdle ==
    /\ vcall = NoVCall
    /\ vret = NoVRet
    /\ vprev = NoPair

InitUpdateIdle ==
    /\ ucall = NoUCall
    /\ uret = NoURet

InitProfileIdle ==
    /\ now = 0
    /\ sent = NoResponse
    /\ prev = Brief(NoCall)
    /\ last = NoCall
    /\ wrongRun = 0 - 1
    /\ okCount = 0

InitProfile ==
    /\ InitStorage
    /\ InitAuthIdle
    /\ InitUpdateIdle
    /\ InitUiIdle
    /\ InitVerifyIdle
    /\ useMock = TRUE
    /\ now = 0
    /\ sent = NoResponse
    /\ prev = Brief(NoCall)
    /\ last = NoCall
    /\ wrongRun = 0 - 1
    /\ okCount = 0

NextProfile ==
    \/ \E e \in Emails, c \in GenCodes, r \in RandSuffixes :
          SendEmailVerification(e, c, r)
    \/ \E id \in IdInputs, c \in CodeInputs : VerifyEmail(id, c)
    \/ Tick

SpecProfile == InitProfile /\ [][NextProfile]_vars

\* what an earlier visit may have left in localStorage
StoredProfile ==
    [kind |-> "json",
     o |-> [username |-> JsString("demo"), email |-> JsString("demo@truthlens.com")]]

InitAuth ==
    /\ token \in {NoItem, "tokA"}
    /\ user \in {NoUser, ItemOf(JSONstringify(JsObject(UserObject(
                      [username |-> "demo", email |-> "demo@truthlens.com"]))))}
    /\ profile \in {NoProfile, StoredProfile}
    /\ verification = NoChallenge
    /\ InitProfileIdle
    /\ InitAuthIdle
    /\ InitUpdateIdle
    /\ InitUiIdle
    /\ InitVerifyIdle
    /\ useMock = FALSE

LoginResponses == Responses({TokenBody(t) : t \in AccessTokens} \cup {EmptyBody})

NextAuth ==
    \/ \E a \in Accounts, via \in {"api", "page"} : StartRegister(a, via)
    \/ \E resp \in LoginResponses : RespondRegister(resp)
    \/ \E a \in Accounts, via \in {"api", "page"} : StartLogin(a, via)
    \/ \E resp \in LoginResponses : RespondLogin(resp)
    \/ \E a \in Accounts : StartGetCurrentUser(a)
    \/ \E resp \in Responses({UserObject(flow.account)}) : RespondMe(resp)
    \/ StartVerifyArticle
    \/ \E resp \in Responses({ResultBody}) : RespondVerifyArticle(resp)
    \/ StartRealVerifyArticle
    \/ \E resp \in Responses({ResultBody}) : RespondRealVerifyArticle(resp)
    \/ \E p \in Providers : StartSocialLogin(p)
    \/ CompleteSocialLogin
    \/ Logout
    \/ \E confirmed \in BOOLEAN : HandleLogout(confirmed)

SpecAuth == InitAuth /\ [][NextAuth]_vars

\* Math.random() * 100, around the 8% threshold
Draws == {0, ServerErrorPct - 1, ServerErrorPct, 99}

\* one call of the exported verifyArticle, on any text and token
InitVerify ==
    /\ InitStorage
    /\ InitProfileIdle
    /\ InitAuthIdle
    /\ InitUpdateIdle
    /\ InitUiIdle
    /\ useMock \in BOOLEAN
    /\ vcall \in [pc : {"called"}, token : VerifyTokens, text : Texts]
    /\ vret = NoVRet
    /\ vprev = NoPair

NextVerify ==
    \/ EnterVerifyArticle
    \/ \E draw \in Draws : DelayElapsed(draw)
    \/ \E resp \in Responses({ResultBody}) : RespondFetch(resp)

SpecVerify == InitVerify /\ [][NextVerify]_vars

\* what updateProfile may be handed
Usernames ==
    { <<>>, <<" ", " ">>, <<"a","b">>, <<" ","a","b"," ">>, <<"a","b","c">>,
      Letters(MaxNameLen), Letters(MaxNameLen + 1),
      ReservedName, <<"E","r","r","O","R">>, <<" ">> \o ReservedName \o <<" ">> }
UpdateEmails ==
    { <<>>, <<"n","@","b",".","c">>, <<"m","@","b",".","c">>, <<"a","@","b">>,
      <<" ","n","@","b",".","c">> }
Passwords ==
    {NoPassword, Password(0), Password(MinPasswordLen - 1), Password(MinPasswordLen)}
Bios == { <<" ","h","i">> }
UpdateDraws == {UpdateErrorPct - 1, UpdateErrorPct}

\* the cached user as register() or getCurrentUser() leaves it, as the login
\* page leaves it after a real-backend login, or none
CachedUsers ==
    {NoUser,
     ItemOf(JsJson([username |-> JsString(<<"d","e","m","o">>),
                    email |-> JsString(<<"n","@","b",".","c">>)])),
     ItemOf(JSONstringify(JsUndefined))}

InitUpdate ==
    /\ token \in {NoItem, "tokA"}
    /\ user \in CachedUsers
    /\ profile = NoProfile
    /\ verification = NoChallenge
    /\ InitProfileIdle
    /\ InitAuthIdle
    /\ InitUpdateIdle
    /\ InitUiIdle
    /\ InitVerifyIdle
    /\ useMock = TRUE

NextUpdate ==
    \/ \E u \in Usernames, e \in UpdateEmails, p \in Passwords, b \in Bios :
          CallUpdateProfile(u, e, p, b)
    \/ EnterUpdateProfile
    \/ \E draw \in UpdateDraws : UpdateDelayElapsed(draw)

SpecUpdate == InitUpdate /\ [][NextUpdate]_vars

\* every combination of the words, on either side of the length bonus
ScoreTexts ==
    {t \in [words : SUBSET Words,
            len : {ShortTextLimit - 1, LongTextBonus, LongTextBonus + 1},
            blank : {FALSE}] : t.len >= MinLen(t.words)}

\* one text, scored on its own or verified by the mock
InitScore ==
    /\ InitStorage
    /\ InitProfileIdle
    /\ InitAuthIdle
    /\ InitUpdateIdle
    /\ InitUiIdle
    /\ useMock = TRUE
    /\ vcall \in [pc : {"score"}, token : {JsNull}, text : ScoreTexts]
               \cup [pc : {"called"}, token : {JsNull, JsString("tokA")},
                     text : ScoreTexts]
    /\ vret = NoVRet
    /\ vprev = NoPair

NextScore ==
    \/ CalculateMockScore
    \/ EnterVerifyArticle
    \/ \E draw \in Draws : DelayElapsed(draw)

SpecScore == InitScore /\ [][NextScore]_vars

\* two mock calls in a row, on texts long enough for the keyword scoring
PairWords == {"who", "Hoax", "professor", "rumor"}
PairTexts ==
    {t \in Texts : t.words \subseteq PairWords /\ ~t.blank
                     /\ t.len \in {ShortTextLimit, LongTextBonus + 1}}

InitVerifyPair ==
    /\ InitStorage
    /\ InitProfileIdle
    /\ InitAuthIdle
    /\ InitUpdateIdle
    /\ InitUiIdle
    /\ InitVerifyIdle
    /\ useMock = TRUE

NextVerifyPair ==
    \/ \E tok \in VerifyTokens, text \in PairTexts : CallVerifyArticle(tok, text)
    \/ EnterVerifyArticle
    \/ \E draw \in Draws : DelayElapsed(draw)

SpecVerifyPair == InitVerifyPair /\ [][NextVerifyPair]_vars

\* what the edit form may hold when it is submitted
\* the code the page's challenges carry; the user types it or another one
SentCode == <<"1","0","0","0","0","0">>

FormData(username, email, password) ==
    [username |-> username, email |-> email, bio |-> <<>>,
     password |-> password, confirmed |-> TRUE]
FormInputs ==
    { FormData(<<"a","b","c">>, e, Password(0)) :
          e \in { <<"n","@","b",".","c">>, <<"m","@","b",".","c">>,
                  <<"k","@","b",".","c">>, <<"a","@","b">> } }
    \cup { FormData(<<"a","b">>, <<"m","@","b",".","c">>, Password(0)),
           FormData(ReservedName, <<"m","@","b",".","c">>, Password(0)),
           FormData(<<"a","b","c">>, <<"n","@","b",".","c">>,
                    Password(MinPasswordLen - 1)) }

\* the profile page in view mode, its profile loaded by getCurrentUser(),
\* which has left the user it received in truthlens_user
InitProfilePage ==
    /\ token = "tokA"
    /\ user = ItemOf(JsJson([username |-> JsString(LoadedProfile.username),
                             email |-> JsString(LoadedProfile.email)]))
    /\ profile = NoProfile
    /\ verification = NoChallenge
    /\ InitProfileIdle
    /\ InitAuthIdle
    /\ InitVerifyIdle
    /\ InitUpdateIdle
    /\ InitUiIdle
    /\ useMock = TRUE

NextProfilePage ==
    \/ handleEditClick
    \/ handleCancel
    \/ \E formData \in FormInputs : handleSave(formData)
    \/ SaveSendResolved(SentCode, FreshSuffix)
    \/ \E draw \in UpdateDraws : SaveUpdateResolved(draw)
    \/ \E code \in GenCodes : handleVerifyEmail(code)
    \/ VerifyResolved
    \/ \E draw \in UpdateDraws : VerifyUpdateResolved(draw)
    \/ handleResendCode
    \/ ResendResolved(SentCode, FreshSuffix)
    \/ handleCloseVerification

SpecProfilePage == InitProfilePage /\ [][NextProfilePage]_vars

\* what CheckerCard may submit: nothing, blanks, a short text, long texts
CheckerTexts ==
    { EmptyText,
      [words |-> {}, len |-> 3, blank |-> TRUE],
      [words |-> {"hoax"}, len |-> ShortTextLimit - 1, blank |-> FALSE],
      [words |-> {"who"}, len |-> ShortTextLimit, blank |-> FALSE] }

\* the checker page before its mount effect has run
InitCheckerPage ==
    /\ token \in {NoItem, "tokA"}
    /\ user = NoUser
    /\ profile = NoProfile
    /\ verification = NoChallenge
    /\ InitProfileIdle
    /\ InitAuthIdle
    /\ InitVerifyIdle
    /\ InitUpdateIdle
    /\ InitUiIdle
    /\ useMock \in BOOLEAN

NextCheckerPage ==
    \/ Mount
    \/ \E text \in CheckerTexts : handleCheckDocument(text)
    \/ handleContinueAsGuest
    \/ CloseAuthModal
    \/ handleCheckAgain
    \/ DismissError
    \/ handleViewFullReport
    \/ \E draw \in Draws, resp \in Responses({ResultBody}) :
          CheckResolved(draw, resp)
    \/ LoginElsewhere
    \/ LogoutElsewhere

SpecCheckerPage == InitCheckerPage /\ [][NextCheckerPage]_vars

\* one call of mockLogin, on any credentials
LoginTexts ==
    { JsUndefined, Cred("", 0), Cred("", 2), Cred("demo", 0), Cred("demo", 1),
      Cred("demo@truthlens.com", 0), Cred("testuser", 0), Cred("admin", 0),
      Cred("nobody", 0), Cred("demo123", 0), Cred("1234", 0),
      Cred("admin123", 0), Cred("wrong", 0) }
LoginDraws == {0, LoginErrorPct - 1, LoginErrorPct, 99}

InitMockLogin ==
    /\ InitStorage
    /\ InitProfileIdle
    /\ InitAuthIdle
    /\ InitVerifyIdle
    /\ InitUpdateIdle
    /\ InitPageIdle
    /\ InitCheckerIdle
    /\ lstate = InitLoginState
    /\ mounted = "none"
    /\ useMock = TRUE
    /\ mlogin \in [pc : {"called"}, username : LoginTexts, password : LoginTexts,
                    draw : {0}, ret : {NoMockReturn}]

NextMockLogin ==
    \/ MockLoginCalled
    \/ \E draw \in LoginDraws : MockLoginDelayElapsed(draw)

SpecMockLogin == InitMockLogin /\ [][NextMockLogin]_vars

\* the profile page is entered with whatever an earlier visit left in storage
InitLoadProfile ==
    /\ token \in {NoItem} \cup AccessTokens
    /\ user \in {NoUser} \cup
                 {ItemOf(JSONstringify(JsObject(UserObject(a)))) : a \in Accounts}
    /\ profile \in {NoProfile, StoredProfile}
    /\ verification = NoChallenge
    /\ InitProfileIdle
    /\ InitAuthIdle
    /\ InitVerifyIdle
    /\ InitUpdateIdle
    /\ InitCheckerIdle
    /\ pstate = MountingPageState
    /\ pjobs = [handleSave |-> NoJob, handleVerifyEmail |-> NoJob,
                handleResendCode |-> NoJob, loadProfile |-> NoJob]
    /\ plog = [saves |-> 0, sends |-> {}, discarded |-> {},
               applied |-> NoApplied, closed |-> FALSE, caught |-> NoCaught]
    /\ lstate = InitLoginState
    /\ mlogin = NoMockLogin
    /\ mounted = "ProfilePage"
    /\ useMock = FALSE

NextLoadProfile ==
    \/ loadProfile
    \/ \E resp \in Responses({UserObject(a) : a \in Accounts}) : LoadResolved(resp)
    \/ RedirectTimer

SpecLoadProfile ==
    /\ InitLoadProfile
    /\ [][NextLoadProfile]_vars
    /\ WF_vars(loadProfile)
    /\ WF_vars(\E resp \in Responses({UserObject(a) : a \in Accounts}) :
                  LoadResolved(resp))
    /\ WF_vars(RedirectTimer)

\* the three pages, one of them mounted by the router; a promise a handler
\* awaits settles: the timer of a mock fires, fetch resolves or rejects
Pages == {"CheckerPage", "LoginPage", "ProfilePage"}

InitPages ==
    /\ mounted \in Pages
    /\ \/ /\ mounted = "ProfilePage"
          /\ token = "tokA"
          /\ user = ItemOf(JsJson([username |-> JsString(LoadedProfile.username),
                                   email |-> JsString(LoadedProfile.email)]))
          /\ useMock = TRUE
       \/ /\ mounted = "CheckerPage"
          /\ token \in {NoItem, "tokA"}
          /\ user = NoUser
          /\ useMock \in BOOLEAN
       \/ /\ mounted = "LoginPage"
          /\ token = NoItem
          /\ user = NoUser
          /\ useMock = FALSE
    /\ profile = NoProfile
    /\ verification = NoChallenge
    /\ InitProfileIdle
    /\ InitAuthIdle
    /\ InitVerifyIdle
    /\ InitUpdateIdle
    /\ InitPageIdle
    /\ InitCheckerIdle
    /\ lstate = InitLoginState
    /\ mlogin = NoMockLogin

NextLoginPage ==
    \/ \E a \in Accounts : StartLogin(a, "page")
    \/ \E resp \in LoginResponses : RespondLogin(resp)
    \/ \E resp \in Responses({UserObject(flow.account)}) : RespondMe(resp)
    \/ \E a \in Accounts : StartRegister(a, "page")
    \/ \E resp \in LoginResponses : RespondRegister(resp)
    \/ \E p \in Providers : StartSocialLogin(p)
    \/ CompleteSocialLogin

NextPages ==
    \/ mounted = "LoginPage" /\ NextLoginPage
    \/ mounted = "ProfilePage" /\ NextProfilePage
    \/ mounted = "CheckerPage" /\ NextCheckerPage

Settles ==
    /\ WF_vars(\E resp \in LoginResponses : RespondLogin(resp))
    /\ WF_vars(\E resp \in Responses({UserObject(flow.account)}) : RespondMe(resp))
    /\ WF_vars(\E resp \in LoginResponses : RespondRegister(resp))
    /\ WF_vars(CompleteSocialLogin)
    /\ WF_vars(SaveSendResolved(SentCode, FreshSuffix))
    /\ WF_vars(\E draw \in UpdateDraws : SaveUpdateResolved(draw))
    /\ WF_vars(VerifyResolved)
    /\ WF_vars(\E draw \in UpdateDraws : VerifyUpdateResolved(draw))
    /\ WF_vars(\E draw \in Draws, resp \in Responses({ResultBody}) :
                  CheckResolved(draw, resp))

SpecPages == InitPages /\ [][NextPages]_vars /\ Settles

-----------------------------------------------------------------------------
(* Claims about the e-mail change challenge *)

\* the last call was the third wrong code in a row, the challenge not yet expired
LastIsThirdWrong ==
    last.op = "verifyEmail" /\ wrongRun = MaxAttempts /\ ~last.late

\* the last call was verifyEmail with the id and the code of the latest response
LastIsRightCode ==
    /\ last.op = "verifyEmail"
    /\ sent # NoResponse
    /\ last.id = sent.verificationId
    /\ Trim(last.code) = sent.devCode

\* C1 as stated: after three wrong codes in a row for an unexpired challenge the
\* challenge is gone from storage, and the right code then fails with
\* 'Verification session not found'.
C1_ThirdWrongDeletes ==
    /\ LastIsThirdWrong => verification = NoChallenge
    /\ (LastIsRightCode /\ last.runBefore = MaxAttempts /\ ~last.late)
          => last.outcome = "SessionNotFound"

\* C1 amended: three wrong codes in a row leave the challenge stored with
\* attempts = 3 (the third reports 0 attempts remaining); the next call with the
\* right code fails with 'Too many failed attempts' and it is that call which
\* deletes the challenge.
C1_FourthCallDeletes ==
    /\ LastIsThirdWrong
          => /\ verification.present
             /\ verification.attempts = MaxAttempts
             /\ last.outcome = "InvalidCode"
             /\ last.remaining = 0
    /\ (LastIsRightCode /\ last.runBefore = MaxAttempts /\ ~last.late)
          => /\ last.outcome = "TooManyAttempts"
             /\ verification = NoChallenge

C1_Witness ==
    /\ LastIsRightCode
    /\ last.runBefore = MaxAttempts
    /\ ~last.late
    /\ last.outcome = "TooManyAttempts"

\* C2: verifyEmail with the id and code a send has just returned, before expiry,
\* succeeds and deletes the challenge; the same call again fails with
\* 'Verification session not found'; no challenge is verified twice.
C2_VerifyOnce ==
    /\ ( /\ prev.op = "sendEmailVerification" /\ prev.outcome = "Success"
         /\ last.op = "verifyEmail" /\ last.id = prev.id /\ last.code = prev.code
         /\ ~last.late )
          => (last.outcome = "Success" /\ verification = NoChallenge)
    /\ ( /\ prev.op = "verifyEmail" /\ prev.outcome = "Success"
         /\ last.op = "verifyEmail" /\ last.id = prev.id /\ last.code = prev.code )
          => last.outcome = "SessionNotFound"
    /\ okCount <= 1

C2_Witness ==
    /\ prev.op = "verifyEmail" /\ prev.outcome = "Success"
    /\ last.op = "verifyEmail" /\ last.id = prev.id /\ last.code = prev.code
    /\ last.outcome = "SessionNotFound"
    /\ okCount = 1

-----------------------------------------------------------------------------
(* Claims about the real API client and the login page, under SpecAuth *)

\* login() has returned the backend's { access_token, ... } with no logout in between
LoginReturned ==
    /\ apiRet.op = "login"
    /\ ~apiRet.threw
    /\ ~apiRet.disturbed
    /\ Truthy(Prop(apiRet.data, "access_token"))

\* C3: when login() returns after the backend issued an access token and the
\* follow-up profile fetch failed (any status, 401 included), truthlens_token
\* still holds the returned access token.
C3_TokenSurvivesFailedFetch ==
    (LoginReturned /\ apiRet.meFailed)
        => apiRet.token = ToText(Prop(apiRet.data, "access_token"))

\* C4: every backend request answered with HTTP 401 removes truthlens_token and
\* truthlens_user and fails with the session-expired error.
C4_Any401ClearsSession ==
    lastReq.status = 401
        => /\ lastReq.threw
           /\ lastReq.error = SessionExpired
           /\ lastReq.token = NoItem
           /\ lastReq.user = NoUser

\* C5: when the login page has redirected to "/" after a successful login or
\* registration against the real backend, truthlens_token holds the returned
\* access token and truthlens_user the user object of the account.
C5_PageKeepsBackendSession ==
    (/\ pageRet.outcome = "navigated"
     /\ pageRet.handler \in {"handleLoginSubmit", "handleSignupSubmit"}
     /\ ~pageRet.disturbed
     /\ ~apiRet.meFailed
     /\ Truthy(Prop(pageRet.data, "access_token")))
        => /\ pageRet.token = ToText(Prop(pageRet.data, "access_token"))
           /\ pageRet.user
                = ItemOf(JSONstringify(JsObject(UserObject(pageRet.account))))

\* C6: logout (logout() or the profile page's confirmed logout) removes
\* truthlens_token, truthlens_user and truthlens_profile, and from then until the
\* next successful login or registration isAuthenticated() is false and
\* getCurrentUser() fails with the not-authenticated error.
C6_LoggedOutStaysOut ==
    session.loggedOut
        => /\ session.cleared
           /\ ~isAuthenticated(token)
           /\ getCurrentUserGuard(token) = NotAuthenticated

\* a session that held a token was logged out and getCurrentUser() then refused
C6_Witness ==
    /\ session.loggedOut
    /\ session.hadToken
    /\ apiRet.op = "getCurrentUser"
    /\ apiRet.threw
    /\ apiRet.error = NotAuthenticated

-----------------------------------------------------------------------------
(* Claims about article verification, under SpecVerify and SpecVerifyPair *)

InvalidText(text) == text.len = 0 \/ text.blank \/ text.len > MaxTextSize

\* C7: the exported verifyArticle, mock or real, fails with a validation error on
\* an empty, whitespace-only or over-long text; the mock raises it before its
\* delay and before the server-error draw, and raises the simulated server error
\* after the delay and before computing any score or source.
C7_InvalidTextRejected ==
    /\ (vret.outcome # "none" /\ InvalidText(vret.text))
          => /\ vret.outcome = "error"
             /\ vret.error \in {EmptyTextError, TooLongError}
    /\ (vret.impl = "mock" /\ vret.error \in {EmptyTextError, TooLongError})
          => (~vret.delayed /\ ~vret.drawn)
    /\ (vret.impl = "mock" /\ vret.error = ServerError)
          => (vret.delayed /\ ~vret.computed)

\* a mock call on a text of 1..199 characters has ended otherwise than by the
\* simulated server error
ShortCallEnded ==
    /\ vret.impl = "mock"
    /\ vret.outcome # "none"
    /\ vret.error # ServerError
    /\ vret.text.len > 0
    /\ vret.text.len < ShortTextLimit

ShortResult ==
    /\ vret.outcome = "result"
    /\ Len(vret.result.sources) = 1
    /\ vret.result.confidence = "low"
    /\ vret.result.verdict = "Uncertain"
    /\ vret.result.score = 50

\* C8 as stated: every non-empty text shorter than 200 characters, for every
\* token, gets exactly 1 source, confidence 'low', verdict 'Uncertain' and score
\* 50 from a mock call that does not hit the simulated server error.
C8_ShortTextNeutral == ShortCallEnded => ShortResult

\* C8 amended: the same for every text shorter than 200 characters that is not
\* whitespace only; a whitespace-only text is rejected as empty.
C8_ShortNonBlankTextNeutral ==
    /\ (ShortCallEnded /\ ~vret.text.blank) => ShortResult
    /\ (ShortCallEnded /\ vret.text.blank)
          => (vret.outcome = "error" /\ vret.error = EmptyTextError)

\* an authenticated short text with credibility and skepticism keywords
C8_Witness ==
    /\ ShortCallEnded
    /\ vret.outcome = "result"
    /\ Truthy(vret.token)
    /\ {"WHO", "Hoax"} \subseteq vret.text.words

GuestLongResult ==
    /\ vret.impl = "mock"
    /\ vret.outcome = "result"
    /\ ~Truthy(vret.token)
    /\ vret.text.len >= ShortTextLimit

\* C9: every guest mock result on a text of at least 200 characters has verdict
\* 'Uncertain', confidence 'low', the fixed guest rationale and at most 2
\* sources, whatever keywords the text contains.
C9_GuestLimited ==
    GuestLongResult
        => /\ vret.result.verdict = "Uncertain"
           /\ vret.result.confidence = "low"
           /\ vret.result.rationale = GuestRationale
           /\ Len(vret.result.sources) <= 2

\* a guest result on a text the keyword scoring rates 'Likely True'
C9_Witness ==
    /\ GuestLongResult
    /\ getVerdict(vret.result.score) = "Likely True"
    /\ Len(vret.result.sources) = 2

\* C10: on the same text of at least 200 characters a guest and an authenticated
\* caller get the same score, and the guest's verdict, confidence and rationale
\* are the same for every text.
C10_GuestScoreUnmasked ==
    LET a == Pair(vret)
        b == vprev
    IN  (a.returned /\ b.returned
           /\ a.text.len >= ShortTextLimit /\ b.text.len >= ShortTextLimit)
        => /\ (a.text = b.text /\ a.guest # b.guest) => a.score = b.score
           /\ (a.guest /\ b.guest)
                 => /\ a.verdict = b.verdict
                    /\ a.confidence = b.confidence
                    /\ a.rationale = b.rationale

\* the same text verified by an authenticated caller, who got a verdict other
\* than 'Uncertain', and then by a guest
C10_Witness ==
    /\ vprev.returned /\ ~vprev.guest
    /\ vprev.verdict # "Uncertain"
    /\ Pair(vret).returned /\ Pair(vret).guest
    /\ Pair(vret).text = vprev.text
    /\ vprev.text.len >= ShortTextLimit

-----------------------------------------------------------------------------
(* Claims about the mock score, under SpecScore *)

Scored == vret.impl = "score" /\ vret.outcome = "result"

\* C11: a text that contains 'hoax' in any letter case and none of 'who', 'cdc',
\* 'research', 'study', 'university' is scored at most 50 by calculateMockScore,
\* whatever its length and its other keywords ('professor' included).
C11_HoaxAtMostFifty ==
    (/\ Scored
     /\ vret.text.words \cap {"hoax", "Hoax"} # {}
     /\ vret.text.words
          \cap {"who", "WHO", "cdc", "research", "study", "university"} = {})
        => vret.result.score <= 50

\* 'Hoax' with 'professor' in a text long enough for the length bonus
C11_Witness ==
    /\ Scored
    /\ vret.text.words = {"Hoax", "professor"}
    /\ vret.text.len > LongTextBonus
    /\ vret.result.score = 40

\* C12: the score of calculateMockScore, and the score field of every mock
\* verifyArticle result, lies in 0..100, also when the bonuses add up to more
\* than 100 and when the penalties add up to less than 0.
C12_ScoreInRange ==
    (vret.impl \in {"score", "mock"} /\ vret.outcome = "result")
        => vret.result.score \in 0..100

\* all the bonuses together: a raw sum above 100, returned to an authenticated
\* caller as 100
C12_Witness ==
    /\ vret.impl = "mock" /\ vret.outcome = "result"
    /\ Truthy(vret.token)
    /\ rawScore(vret.text) > 100
    /\ vret.result.score = 100

-----------------------------------------------------------------------------
(* Claims about the mock updateProfile, under SpecUpdate *)

\* the message of the first rule the arguments of the ended call violate, or ""
FirstViolated ==
    LET name == Trim(uret.username)
    IN  IF Len(name) = 0 THEN UsernameRequired
        ELSE IF Len(name) < MinNameLen THEN UsernameTooShort
        ELSE IF Len(name) > MaxNameLen THEN UsernameTooLong
        ELSE IF lowerCase(uret.username) = ReservedName THEN UsernameInvalid
        ELSE IF ~isValidEmail(uret.email) THEN EmailInvalid
        ELSE IF uret.password.len \in 1..(MinPasswordLen - 1) THEN PasswordTooShort
        ELSE ""

StorageAsBefore == profile = uret.before.profile /\ user = uret.before.user

\* C13: updateProfile checks username non-empty, length >= 3, length <= 30, not
\* the reserved word, e-mail format, password length >= 8 when given, in this
\* order; it fails with the message of the first violated rule before any
\* delay, and a validation failure or a simulated server error leaves
\* truthlens_profile and truthlens_user as they were.
C13_FirstRuleFails ==
    /\ (uret.outcome # "none" /\ FirstViolated # "")
          => /\ uret.outcome = "error"
             /\ uret.error = FirstViolated
             /\ ~uret.delayed
    /\ (uret.outcome # "none" /\ FirstViolated = "") => uret.delayed
    /\ (uret.outcome = "error"
          /\ uret.error \in ValidationErrors \cup {UpdateServerError})
          => StorageAsBefore

\* a call that breaks the length rule and the e-mail rule, on a stored profile
C13_Witness ==
    /\ uret.outcome = "error"
    /\ uret.error = UsernameTooShort
    /\ ~isValidEmail(uret.email)
    /\ uret.before.profile # NoProfile

\* C14: whenever truthlens_profile has been written by updateProfile, its
\* username has 3 to 30 characters, its e-mail matches the pattern, and the
\* cached truthlens_user carries the same username and e-mail.
C14_StoredProfileValid ==
    profile.kind = "json"
        => /\ Len(profile.o.username.s) \in MinNameLen..MaxNameLen
           /\ isValidEmail(profile.o.email.s)
           /\ user.kind = "json"
           /\ user.o.username = profile.o.username
           /\ user.o.email = profile.o.email

\* C15: the username stored in truthlens_profile after a successful updateProfile
\* is never the reserved word, in any letter case, also for inputs with blanks
\* around them.
C15_ReservedNeverStored ==
    uret.outcome = "ok" => lowerCase(profile.o.username.s) # ReservedName

-----------------------------------------------------------------------------
(* Further claims about the e-mail change challenge, under SpecProfile *)

\* C16: a challenge created at time t has expiresAt = t + 10 minutes and
\* attempts = 0; a verifyEmail call evaluated later than expiresAt fails with
\* the 'expired' error and removes the challenge, also with the right id and
\* code, and whatever the attempts recorded.
C16_ExpiryFirst ==
    /\ (last.op = "sendEmailVerification" /\ last.outcome = "Success")
          => /\ verification.present
             /\ verification.verificationId = last.id
             /\ verification.expiresAt = last.id.t + ExpiryMs
             /\ verification.attempts = 0
    /\ (last.op = "verifyEmail" /\ last.before.present /\ last.late)
          => /\ last.outcome = "Expired"
             /\ verification = NoChallenge

\* the right id and code, too late, for a challenge with three failed attempts
C16_Witness ==
    /\ LastIsRightCode
    /\ last.late
    /\ last.before.present
    /\ last.before.attempts = MaxAttempts
    /\ last.outcome = "Expired"

\* the last call was verifyEmail on a stored, unexpired challenge with fewer than
\* three attempts recorded
LastOnLiveChallenge ==
    /\ last.op = "verifyEmail"
    /\ last.before.present
    /\ ~last.late
    /\ last.before.attempts < MaxAttempts

\* C17: on an unexpired challenge with fewer than 3 attempts, verifyEmail with
\* another id fails and leaves the challenge as it was, whatever the code; with
\* the matching id and a wrong code it adds exactly 1 to the attempts and
\* reports 3 minus the new count as remaining.
C17_MismatchFrame ==
    /\ (LastOnLiveChallenge /\ last.id # last.before.verificationId)
          => /\ last.outcome = "InvalidSession"
             /\ verification = last.before
    /\ (LastOnLiveChallenge /\ last.id = last.before.verificationId
          /\ Trim(last.code) # last.before.code)
          => /\ last.outcome = "InvalidCode"
             /\ verification
                  = [last.before EXCEPT !.attempts = last.before.attempts + 1]
             /\ last.remaining = MaxAttempts - verification.attempts

\* another id, with the code of the challenge, after two failed attempts
C17_Witness ==
    /\ LastOnLiveChallenge
    /\ last.id # last.before.verificationId
    /\ Trim(last.code) = last.before.code
    /\ last.before.attempts = 2

-----------------------------------------------------------------------------
(* Claims about the profile page *)

\* a save that left the e-mail address alone went straight to updateProfile,
\* without a call of sendEmailVerification
DirectWhenUnchanged ==
    /\ pjobs.handleSave.pc = "send" => pjobs.handleSave.updates.changed
    /\ pjobs.handleSave.pc = "update" => ~pjobs.handleSave.updates.changed
    /\ plog.applied.by = "handleSave" =>
           ~plog.applied.changed /\ ~plog.applied.challenged

\* updates with a new e-mail address reached updateProfile only from
\* handleVerifyEmail, after verifyEmail had succeeded on a challenge issued for
\* that address
VerifiedWhenChanged ==
    plog.applied.changed =>
        /\ plog.applied.by = "handleVerifyEmail"
        /\ plog.applied.verified = plog.applied.email

\* updates that a close of the modal discarded were not handed to updateProfile
DiscardedStayDiscarded == ~plog.applied.discarded

\* C18 as stated: on the profile page a save with the loaded e-mail address calls
\* updateProfile directly and creates no challenge; a save with another address
\* reaches updateProfile only after verifyEmail has succeeded for a challenge
\* issued for that address; and updates discarded by closing the verification
\* modal are never applied afterwards.
C18_SaveVerifyClose ==
    /\ DirectWhenUnchanged
    /\ VerifiedWhenChanged
    /\ DiscardedStayDiscarded

-----------------------------------------------------------------------------
(* Claims about the checker page *)

\* a submission while the page holds the user for not logged in called nothing,
\* kept the text as pending and opened the auth prompt
GuestSubmissionPrompts ==
    (clog.last.op = "handleCheckDocument" /\ ~clog.last.loggedIn) =>
        /\ clog.last.calls = 0
        /\ cstate.pendingText = clog.last.text
        /\ cstate.showAuthModal

\* closing the prompt called nothing
ClosingCallsNothing == clog.last.op = "onClose" => clog.last.calls = 0

\* 'continue as guest' was chosen in a prompt that a submission had opened
ContinuedAfterSubmission ==
    clog.last.op = "handleContinueAsGuest" /\ clog.last.opened = "submit"

\* the one call of verifyArticle with a null token and the pending text
OneGuestCall ==
    /\ clog.last.calls = 1
    /\ clog.last.token = JsNull
    /\ clog.last.ctext = clog.last.pendingBefore
    /\ cstate.pendingText = EmptyText

-----------------------------------------------------------------------------
(* Claims about the requests in flight *)

\* the checker page awaits at most one verifyArticle, its loading flag set
CheckerOneInFlight ==
    /\ Len(cjobs) <= 1
    /\ Len(cjobs) = 1 => cstate.isLoading

\* the profile page awaits at most one request of the profile API, one of its
\* loading flags set
ProfileOneInFlight ==
    /\ InFlight <= 1
    /\ InFlight = 1 => (pstate.isSaving \/ pstate.isVerifying)

\* C20 as stated: on each page at most one verification or auth request is in
\* flight at any time; while a request has not resolved the page's loading flag
\* is true and no user action of the page starts a second request.
C20_OneRequestInFlight ==
    /\ CheckerOneInFlight
    /\ ProfileOneInFlight

-----------------------------------------------------------------------------
(* Claims about the mock's sources, verdict and confidence *)

CredibilityKeywords == {"who", "cdc", "research", "study", "university"}
SkepticismKeywords == {"fake", "hoax", "conspiracy", "unverified", "rumor"}

\* the mock has returned a result for a text of at least 200 characters
LongMockResult ==
    /\ vret.impl = "mock"
    /\ vret.outcome = "result"
    /\ vret.text.len >= ShortTextLimit

Publishers(sources) == {sources[i].publisher : i \in 1..Len(sources)}

\* C21 as stated: for a text of at least 200 characters the sources, before the
\* guest cap, hold the FactCheck.org entry exactly when the text contains one of
\* fake, hoax, conspiracy, unverified, rumor, and the Reuters entry otherwise;
\* they hold the WHO and CDC entries exactly when it contains one of who, cdc,
\* research, study, university.
C21_SourcesFollowKeywords ==
    LongMockResult =>
        LET ps == Publishers(pushedSources(vret.text, ~Truthy(vret.token)))
            skeptical == \E w \in SkepticismKeywords :
                             includes(lowerText(vret.text), w)
            credible == \E w \in CredibilityKeywords :
                            includes(lowerText(vret.text), w)
        IN  /\ "FactCheck.org" \in ps <=> skeptical
            /\ "Reuters" \in ps <=> ~skeptical
            /\ {"WHO", "CDC"} \subseteq ps <=> credible
            /\ {"WHO", "CDC"} \cap ps # {} <=> credible

\* the mock has returned a result to an authenticated caller for a text of at
\* least 200 characters
AuthLongResult == LongMockResult /\ Truthy(vret.token)

\* C22: for every authenticated mock result on a text of at least 200 characters
\* the verdict is 'Likely True' exactly when score >= 70, 'Uncertain' exactly when
\* 40 <= score < 70 and 'Likely False' exactly when score < 40; the confidence is
\* 'high' exactly when score >= 75 or score <= 25, 'medium' exactly when it is not
\* high and score >= 60 or score <= 40, and 'low' otherwise.
C22_VerdictAndConfidence ==
    AuthLongResult =>
        LET s == vret.result.score
            high == s >= 75 \/ s <= 25
            medium == ~high /\ (s >= 60 \/ s <= 40)
        IN  /\ vret.result.verdict = "Likely True" <=> s >= 70
            /\ vret.result.verdict = "Uncertain" <=> (40 <= s /\ s < 70)
            /\ vret.result.verdict = "Likely False" <=> s < 40
            /\ vret.result.confidence = "high" <=> high
            /\ vret.result.confidence = "medium" <=> medium
            /\ vret.result.confidence = "low" <=> (~high /\ ~medium)

\* an authenticated result whose score is exactly the 'Likely True' threshold
C22_Witness ==
    /\ AuthLongResult
    /\ vret.result.score = 70
    /\ vret.result.verdict = "Likely True"
    /\ vret.result.confidence = "medium"

-----------------------------------------------------------------------------
(* Claims about getCurrentUser *)

\* getCurrentUser() is called in this step
GetCurrentUserCalled ==
    /\ flow.op = "none"
    /\ \/ flow'.op = "getCurrentUser"
       \/ apiRet'.op = "getCurrentUser" /\ apiRet' # apiRet

\* getCurrentUser() returns in this step
GetCurrentUserReturned ==
    /\ flow.op = "getCurrentUser"
    /\ flow'.op = "none"
    /\ ~apiRet'.threw

\* C23: getCurrentUser() with no token in storage fails with 'Not authenticated.
\* Please login first.' without a network request and without a change of
\* storage; with a token and a successful response it writes the returned user to
\* truthlens_user and returns it, and leaves truthlens_token as it is.
C23_GetCurrentUser ==
    [][ /\ (GetCurrentUserCalled /\ ~HasToken(token)) =>
              /\ apiRet'.threw
              /\ apiRet'.error = "Not authenticated. Please login first."
              /\ flow' = flow
              /\ lastReq' = NoReq
              /\ UNCHANGED storageVars
        /\ GetCurrentUserReturned =>
              /\ lastReq'.status = 200
              /\ apiRet'.data = UserObject(flow.account)
              /\ user' = ItemOf(JsJson(apiRet'.data))
              /\ token' = token
              /\ UNCHANGED <<profile, verification>> ]_vars

\* getCurrentUser() has returned the user it stored, the token still in place
C23_Witness ==
    /\ apiRet.op = "getCurrentUser"
    /\ ~apiRet.threw
    /\ lastReq.endpoint = "/users/me"
    /\ HasToken(token)
    /\ user = ItemOf(JsJson(apiRet.data))

-----------------------------------------------------------------------------
(* Claims about failures in the submit handlers *)

\* the message a login-page handler shows for the error its call threw
LoginPageError ==
    IF apiRet.error # "" THEN apiRet.error ELSE Fallback(apiRet.op)

\* a call awaited by a submit handler threw in the last step
LoginCallThrew == pageRet.handler # "none" /\ apiRet.threw
CheckCallThrew == clog.caught # ""
SaveCallThrew == plog.caught.by = "handleSave"
VerifyCallThrew == plog.caught.by = "handleVerifyEmail"

\* the handler caught it: its loading flag is false again and the page's
\* error state holds the message
FailureShown ==
    /\ LoginCallThrew => ~lstate.isLoading /\ lstate.error = LoginPageError
    /\ CheckCallThrew => ~cstate.isLoading /\ cstate.error = clog.caught
    /\ SaveCallThrew => ~pstate.isSaving /\ pstate.error = plog.caught.message
    /\ VerifyCallThrew =>
           /\ ~pstate.isVerifying
           /\ pstate.verificationError = plog.caught.message

\* C24: in each submit handler of the three pages (check, login, signup, social
\* login, profile save, e-mail verify) a failure of the awaited call is caught,
\* its message is stored in the page's error state, and the handler's loading
\* flag (isLoading, isSaving, isVerifying) always returns to false.
C24_FailuresAreCaught ==
    /\ []FailureShown
    /\ lstate.isLoading ~> ~lstate.isLoading
    /\ cstate.isLoading ~> ~cstate.isLoading
    /\ pstate.isSaving ~> ~pstate.isSaving
    /\ pstate.isVerifying ~> ~pstate.isVerifying

\* a failed verification of the code, shown in the modal with the flag lowered
C24_Witness ==
    /\ mounted = "ProfilePage"
    /\ VerifyCallThrew
    /\ pstate.verificationError = UpdateServerError
    /\ ~pstate.isVerifying

-----------------------------------------------------------------------------
(* Claims about the mock login *)

\* the fixed account the credentials of the call match, 0 if none
MatchedAccount ==
    LET hits == {i \in 1..Len(validCredentials) :
                    /\ mlogin.username \in
                          {Cred(validCredentials[i].username, 0),
                           Cred(validCredentials[i].email, 0)}
                    /\ mlogin.password = Cred(validCredentials[i].password, 0)}
    IN  IF hits = {} THEN 0 ELSE CHOOSE i \in hits : TRUE

\* neither the username nor the password is missing or blank
CredentialsGiven ==
    /\ mlogin.username # JsUndefined /\ mlogin.username.core # ""
    /\ mlogin.password # JsUndefined /\ mlogin.password.core # ""

CredentialsMissing ==
    \/ mlogin.username \in {JsUndefined, Cred("", 0)}
    \/ mlogin.password \in {JsUndefined, Cred("", 0)}

\* the call resolved with status 200, a token and the user of account i
ResolvedFor(i) ==
    /\ ~mlogin.ret.threw
    /\ mlogin.ret.status = 200
    /\ mlogin.ret.token # JsUndefined
    /\ mlogin.ret.user = JsObject([username |-> validCredentials[i].username,
                                   email |-> validCredentials[i].email])

FailedWith(message) == mlogin.ret.threw /\ mlogin.ret.error = message

\* the simulated server error struck the call
ServerErrorDrawn == mlogin.ret.delayed /\ mlogin.draw < LoginErrorPct

\* C25 as stated: matching credentials resolve with status 200, a token and the
\* account's user; given credentials that match no account fail with 'Invalid
\* username or password'; a missing username or password fails before the delay.
C25_MockLogin ==
    mlogin.pc = "done" =>
        /\ MatchedAccount # 0 => ResolvedFor(MatchedAccount)
        /\ (CredentialsGiven /\ MatchedAccount = 0) => FailedWith(InvalidLogin)
        /\ CredentialsMissing => mlogin.ret.threw /\ ~mlogin.ret.delayed

\* C25 amended: the same, unless the simulated server error (5% of the calls
\* that reach the delay) strikes, and then the call fails with 'Server error:
\* Unable to process login. Please try again.' whatever the credentials.
C25_MockLoginUnlessServerError ==
    mlogin.pc = "done" =>
        /\ (MatchedAccount # 0 /\ ~ServerErrorDrawn)
               => ResolvedFor(MatchedAccount)
        /\ (CredentialsGiven /\ MatchedAccount = 0 /\ ~ServerErrorDrawn)
               => FailedWith(InvalidLogin)
        /\ (CredentialsGiven /\ ServerErrorDrawn) => FailedWith(LoginServerError)
        /\ CredentialsMissing => mlogin.ret.threw /\ ~mlogin.ret.delayed

\* demo's e-mail address and password have logged demo in
C25_Witness ==
    /\ mlogin.pc = "done"
    /\ mlogin.username = Cred("demo@truthlens.com", 0)
    /\ mlogin.password = Cred("demo123", 0)
    /\ ResolvedFor(2)

-----------------------------------------------------------------------------
(* Claims about the stored challenge *)

\* the last call was a sendEmailVerification that did not throw
LastIsSend == last.op = "sendEmailVerification" /\ last.outcome = "Success"

\* C26: truthlens_email_verification holds at most one challenge, its attempts
\* are always in 0..3, and each sendEmailVerification replaces whatever is
\* stored by a challenge with the id and the code it has just generated and
\* attempts = 0, so that the three attempts are counted anew after a resend.
C26_OneChallengeResetBySend ==
    /\ verification.present => verification.attempts \in 0..MaxAttempts
    /\ LastIsSend =>
           /\ verification.present
           /\ verification.verificationId = last.id
           /\ verification.code = last.code
           /\ verification.attempts = 0
           /\ wrongRun = 0
    /\ (last.op = "verifyEmail" /\ last.outcome = "TooManyAttempts")
           => last.before.attempts = MaxAttempts

\* a resend has replaced a challenge whose three attempts were used up
C26_Witness ==
    /\ LastIsSend
    /\ last.before.present
    /\ last.before.attempts = MaxAttempts
    /\ last.before.verificationId # verification.verificationId
    /\ verification.attempts = 0

-----------------------------------------------------------------------------
(* Claims about an update that fails after the code was accepted *)

\* the messages verifyEmail throws
VerifyEmailErrors ==
    {"SessionNotFound", "Expired", "TooManyAttempts", "InvalidSession",
     "InvalidCode"}

\* this step ends handleVerifyEmail with an error of updateProfile: verifyEmail
\* had accepted the code
UpdateFailsAfterVerify ==
    /\ pjobs.handleVerifyEmail.pc # "idle"
    /\ pjobs'.handleVerifyEmail.pc = "idle"
    /\ plog'.caught.by = "handleVerifyEmail"
    /\ plog'.caught.message \notin VerifyEmailErrors

\* what C27 says of the state after such a step
VerifiedButNotUpdated ==
    LET job == pjobs.handleVerifyEmail
    IN  /\ profile' = profile
        /\ user' = user
        /\ verification'.present
               => verification'.verificationId # job.verificationId
        /\ pstate'.showVerificationModal
        /\ pstate'.verificationError = plog'.caught.message
        /\ pstate'.pendingUpdates = job.updates
        /\ pstate'.verificationId = job.verificationId
               => verifyEmail(verification', job.verificationId, job.code,
                              now).outcome = "SessionNotFound"

\* C27: when verifyEmail succeeds and the updateProfile that follows fails, the
\* stored profile and the cached user are unchanged, the challenge is consumed,
\* the modal stays open with the error and the pending update, and the same
\* code submitted again fails with 'Verification session not found' as long as
\* no new code has been requested.
C27_VerifiedButNotUpdated ==
    [][UpdateFailsAfterVerify => VerifiedButNotUpdated]_vars

\* the same, for a modal that was not closed while the code was being verified
UnlessClosedMeanwhile ==
    [][(/\ UpdateFailsAfterVerify
        /\ pstate.showVerificationModal
        /\ pstate.pendingUpdates = pjobs.handleVerifyEmail.updates)
          => VerifiedButNotUpdated]_vars

-----------------------------------------------------------------------------
(* Claims about the initial load of the profile page *)

\* loadProfile has just failed for want of a usable session: there was no
\* token, or the backend answered 401 and the session was cleared
LoadFailedNoSession ==
    /\ plog.caught.by = "loadProfile"
    /\ plog.caught.message \in {NotAuthenticated, SessionExpired}

\* C28: whenever the initial load of the profile fails because there is no
\* usable session (no token stored, or a 401 that clears the session), the page
\* eventually navigates to '/auth'; it does not stay on the profile route with
\* no profile displayed.
C28_NoSessionRedirects == LoadFailedNoSession ~> mounted = "LoginPage"

\* the part of C28 that holds: with no token stored the page shows the notice
\* and goes to '/auth'
NoTokenRedirects ==
    (plog.caught.by = "loadProfile" /\ plog.caught.message = NotAuthenticated)
        ~> mounted = "LoginPage"

\* after a 401 the page has rendered nothing, the session cleared, and no
\* redirect is pending
BlankAfter401 ==
    /\ plog.caught.by = "loadProfile"
    /\ plog.caught.message = SessionExpired
    /\ token = NoItem
    /\ Rendered = "null"
    /\ pjobs.loadProfile.pc = "idle"
    /\ mounted = "ProfilePage"

-----------------------------------------------------------------------------
(* Claims about the result and the error of the checker page *)

ResultSet == cstate.result # NoResult
ErrorSet == cstate.error # ""

\* a performCheck begins to await, ends, or 'check again' is pressed
CheckStarts == Len(cjobs') > Len(cjobs)
CheckEnds ==
    \/ Len(cjobs') < Len(cjobs)
    \/ clog'.caught # "" /\ clog'.last # clog.last
CheckAgainPressed ==
    clog'.last.op = "handleCheckAgain" /\ clog'.last # clog.last

\* C29: on the checker page the result and the error are never both set, and
\* both are empty while isLoading is true; starting a check clears both, a
\* check ends by setting exactly one of them, 'check again' clears both.
ResultOrError ==
    /\ ~(ResultSet /\ ErrorSet)
    /\ cstate.isLoading => ~ResultSet /\ ~ErrorSet
ResultOrErrorStep ==
    /\ CheckStarts =>
           /\ cstate'.result = NoResult /\ cstate'.error = ""
           /\ cstate'.isLoading
    /\ CheckEnds =>
           /\ (cstate'.result # NoResult) # (cstate'.error # "")
           /\ ~cstate'.isLoading
    /\ CheckAgainPressed => cstate'.result = NoResult /\ cstate'.error = ""
-----------------------------------------------------------------------------
(* Claims about a resend that overlaps a code submission *)

EmailVerified == "Email verified and profile updated successfully!"

\* this step ends handleVerifyEmail with its success message, the modal closed
ReportsVerified ==
    /\ pjobs.handleVerifyEmail.pc # "idle"
    /\ pjobs'.handleVerifyEmail.pc = "idle"
    /\ plog'.caught = NoCaught
    /\ pstate'.successMessage = EmailVerified
    /\ ~pstate'.showVerificationModal

\* C30: however a resend and a code submission interleave, once the page
\* reports 'Email verified and profile updated successfully!' and closes the
\* modal, truthlens_email_verification holds no challenge.
C30_NoChallengeAfterSuccess ==
    [][ReportsVerified => ~verification'.present]_vars

====
